---------------------------- MODULE Spec2Model ----------------------------
(***************************************************************************)
(* Model of the livestream server's Connection Manager                    *)
(* (src/services/connection.py), its per-client buffers (ClientQueue),    *)
(* the stream handlers (src/services/handlers.py) and the fan-out done by *)
(* the broadcaster's reader tasks (src/services/broadcaster.py).          *)
(*                                                                         *)
(* Scheduling: everything runs on one asyncio event loop, so the code     *)
(* between two suspension points is one atomic step.  The lock of the     *)
(* Connection Manager is never held across a suspension point (no await   *)
(* inside any "async with self._lock" body), so acquiring it never waits  *)
(* and register / unregister are atomic steps.                            *)
(*                                                                         *)
(* A ClientQueue object lives in a slot of `client`.  Its id is           *)
(* id(self), the object's address: the slot index stands for the address, *)
(* so an id is unique among live objects and is reused once the object    *)
(* is gone.  Wall-clock fields (connected_at, last_activity) and          *)
(* bytes_sent are not modelled.                                           *)
(*                                                                         *)
(* Specifications: Spec (handlers and readers), ApiSpec and CloseSpec     *)
(* (callers of the Connection Manager's API), BSpec and BLive (the        *)
(* broadcaster's lifecycle, BLive with the event loop's fairness), HLive  *)
(* (handlers with client disconnects and dequeue timeouts), CSpec (the    *)
(* supervisor's cycles together with registered buffers), StaticSpec      *)
(* (static files, src/main.py), CleanSpec (the API with cleanup_inactive),*)
(* LSpec (the lifecycle driven by the ASGI lifespan handler), PSpec (the  *)
(* video reader on the bytes of its child) and ArgSpec (the arguments of  *)
(* the video child, src/lib/config.py).                                   *)
(***************************************************************************)
EXTENDS Integers, Sequences, FiniteSets, TLC

\* ------------------------------------------------------------------ bounds
MaxChunks == 2       \* frames and audio chunks the reader tasks produce
MaxRequests == 3     \* stream requests (register calls) that arrive in a run
MaxStarts == 2       \* calls of MediaBroadcaster.start in a run
MaxStops == 1        \* calls of MediaBroadcaster.stop in a run
MaxSpawns == 3       \* ffmpeg children spawned in a run
MaxTimeouts == 2     \* consecutive dequeue timeouts of one handler that are counted
MaxSegs == 3         \* segments in the path of a static request
MaxBoxes == 2        \* boxes the video child writes to its stdout

\* ------------------------------------------------------- program constants
frame_buffer_size == 2       \* VideoConfig.frame_buffer_size
buffer_size == 10            \* AudioConfig.buffer_size
AudioQsizeLimit == 10        \* the literal in broadcast_audio

\* ConnectionManager._max_clients after StreamingApp.__init__ has called
\* set_max_clients(config.server.max_clients): the server runs with
\* MAX_CLIENTS=2
max_clients == 2

\* slots for handler tasks and their buffers: every admitted client and one
\* request more
NumTasks == max_clients + 1

Tasks == 1..NumTasks
TaskIds == 1..MaxStarts       \* the supervisor tasks start creates, in order
Pids == 1..MaxSpawns          \* the children, in the order spawned
Chunks == 1..MaxChunks
StreamTypes == {"video", "audio"}

VARIABLES
    client,         \* slot -> the ClientQueue object in it (NoClient: none)
    video_clients,  \* ConnectionManager._video_clients: the ids registered
    audio_clients,  \* ConnectionManager._audio_clients
    current_frame,  \* MediaBroadcaster._current_frame (0: None)
    produced,       \* chunks read from the children so far (chunk k is the k-th)
    pc,             \* task -> where its handler is suspended
    kind,           \* task -> the stream its request asked for
    pending,        \* task -> the body the handler is about to send
    resp,           \* task -> the ASGI messages its handler has sent
    offered,        \* slot -> chunks put_nowait accepted into the buffer
    got,            \* slot -> chunks get() returned to the reader
    unregs,         \* task -> unregister_client calls made by this request
    nAdmit,         \* register calls that returned a buffer
    nUnreg,         \* unregister_client calls that removed a registered buffer
    requests,       \* stream requests that have arrived
    freed,          \* what happened to a slot released at capacity
    ret,            \* the unregister_client call a caller of the API has just
                    \* made, and what it found (NoCall: the last call was another)
    state,          \* MediaBroadcaster._state
    task,           \* MediaBroadcaster._task (0: None)
    video_process,  \* MediaBroadcaster._video_process (0: None)
    audio_process,  \* MediaBroadcaster._audio_process (0: None)
    ffmpeg_pids,    \* the module's _ffmpeg_pids
    shutdown_event, \* MediaBroadcaster._shutdown_event is set
    alive,          \* the children that are running
    reaped,         \* the children whose returncode is set
    tpc,            \* supervisor task -> where _broadcast_loop is suspended
    tlocal,         \* supervisor task -> its locals
    cancel_req,     \* supervisor tasks with a cancel() not yet delivered
    spc,            \* where the caller of stop is suspended
    slocal,         \* the locals of the stop call
    nStart,         \* start calls made
    nStop,          \* stop calls made
    nSpawn,         \* child numbers used: the children spawned and the
                    \* cycles whose first spawn failed
    start_ret,      \* what the last start call did and returned
    respawn,        \* the consecutive short cycles before the last respawn
                    \* and the delay the supervisor slept before it
    disconnected,   \* tasks whose HTTP client has gone away
    timeouts,       \* task -> consecutive client.get timeouts of its loop
    unlocked,       \* a registry entry was added or removed by code that
                    \* did not hold ConnectionManager._lock
    path,           \* the path of the static request being served
    static_resp,    \* the ASGI messages _serve_static has sent for it
    frame_cycle,    \* <<frame, n>>: the video reader of the n-th cycle
                    \* broadcast this frame
    wrote,          \* the boxes the video child has written to its stdout
    pipe,           \* the bytes written and not yet read by the reader
    vbuf,           \* `buffer` of _read_video_frames
    jpegs,          \* the frames _read_video_frames has cut out
    video_config,   \* MediaBroadcaster._video_config (a VideoConfig)
    ffmpeg_args,    \* the transcoder arguments built from it
    lifespan        \* what the ASGI lifespan handler has sent last

vars == <<client, video_clients, audio_clients, current_frame, produced, pc,
          kind, pending, resp, offered, got, unregs, nAdmit, nUnreg,
          requests, freed, ret, state, task, video_process, audio_process,
          ffmpeg_pids, shutdown_event, alive, reaped, tpc, tlocal,
          cancel_req, spc, slocal, nStart, nStop, nSpawn, start_ret, respawn,
          disconnected, timeouts, unlocked, path, static_resp,
          frame_cycle, wrote, pipe, vbuf, jpegs, video_config, ffmpeg_args,
          lifespan>>

\* the connection manager, the handlers and the readers' output
cvars == <<client, video_clients, audio_clients, current_frame, produced, pc,
           kind, pending, resp, offered, got, unregs, nAdmit, nUnreg,
           requests, freed, ret>>

\* the broadcaster's lifecycle
bvars == <<state, task, video_process, audio_process, ffmpeg_pids,
           shutdown_event, alive, reaped, tpc, tlocal, cancel_req, spc,
           slocal, nStart, nStop, nSpawn, start_ret, respawn>>

\* what only some of the specifications below change: the clients'
\* disconnects and dequeue timeouts, the lock discipline, static serving
\* the video reader's byte stream, the transcoder arguments, the lifespan
xvars == <<wrote, pipe, vbuf, jpegs, video_config, ffmpeg_args, lifespan>>

nvars == <<disconnected, timeouts, unlocked, path, static_resp, frame_cycle,
           xvars>>

\* ------------------------------------------------------------ ClientQueue
NoClient ==
    [stream_type |-> "none", active |-> FALSE, maxsize |-> 0, queue |-> <<>>,
     frames_sent |-> 0, frames_dropped |-> 0]

\* ClientQueue.__init__
NewClientQueue(maxsize, stream_type) ==
    [stream_type |-> stream_type, active |-> TRUE, maxsize |-> maxsize,
     queue |-> <<>>, frames_sent |-> 0, frames_dropped |-> 0]

\* asyncio.Queue.full(): a maxsize <= 0 means unbounded
QueueFull(c) == c.maxsize > 0 /\ Len(c.queue) >= c.maxsize

\* the drain loop of put_nowait: get_nowait until the queue is empty,
\* counting what was taken out
RECURSIVE Drain(_, _)
Drain(queue, dropped) ==
    IF queue = <<>> THEN dropped ELSE Drain(Tail(queue), dropped + 1)

\* ClientStats.update
StatsUpdate(c) == [c EXCEPT !.frames_sent = @ + 1]

\* put_nowait that forgets to add the drained chunks to frames_dropped
put_nowait_no_count(c, item) ==
    IF ~c.active THEN [ok |-> FALSE, c |-> c]
    ELSE [ok |-> TRUE,
          c |-> StatsUpdate([c EXCEPT !.queue = <<item>>])]

\* put_nowait without the test of self.active
put_nowait_ignore_closed(c, item) ==
    LET dropped == Drain(c.queue, 0)
    IN  [ok |-> TRUE,
         c |-> StatsUpdate([c EXCEPT !.queue = <<item>>,
                                     !.frames_dropped = @ + dropped])]

\* put_nowait that gives up on a full queue instead of making room
put_nowait_fail_when_full(c, item) ==
    IF ~c.active \/ QueueFull(c) THEN [ok |-> FALSE, c |-> c]
    ELSE [ok |-> TRUE,
          c |-> StatsUpdate([c EXCEPT !.queue = Append(@, item)])]

\* ClientQueue.put_nowait: [ok: the return value, c: the object afterwards]
\* an enqueue that does not make room and refuses when a chunk is waiting
put_nowait_refuse_waiting(c, item) ==
    IF ~c.active \/ c.queue # <<>> THEN [ok |-> FALSE, c |-> c]
    ELSE [ok |-> TRUE,
          c |-> StatsUpdate([c EXCEPT !.queue = Append(@, item)])]

put_nowait(c, item) ==
    IF ~c.active THEN [ok |-> FALSE, c |-> c]
    ELSE LET dropped == Drain(c.queue, 0)
             c1 == [c EXCEPT !.queue = <<>>,
                             !.frames_dropped = @ + dropped]
         IN  IF QueueFull(c1)                  \* QueueFull is caught: False
             THEN [ok |-> FALSE, c |-> c1]
             ELSE [ok |-> TRUE,
                   c |-> StatsUpdate([c1 EXCEPT !.queue = Append(@, item)])]

\* a close that flips the flag instead of clearing it
close_toggle(c) == [c EXCEPT !.active = ~@]

\* ClientQueue.close
close(c) == [c EXCEPT !.active = FALSE]

\* ClientQueue.qsize
qsize(c) == Len(c.queue)

\* ------------------------------------------------------ ConnectionManager
video_client_count == Cardinality(video_clients)
audio_client_count == Cardinality(audio_clients)
total_client_count == video_client_count + audio_client_count

\* the manager's state as one value: the registry and the objects it holds
CM == [client |-> client, video_clients |-> video_clients,
       audio_clients |-> audio_clients]

Count(m) == Cardinality(m.video_clients) + Cardinality(m.audio_clients)

Registered(m) == m.video_clients \cup m.audio_clients

\* the manager m with a new object of the given type registered in slot t
Inserted(m, t, stream_type, maxsize) ==
    [client |-> [m.client EXCEPT ![t] = NewClientQueue(maxsize, stream_type)],
     video_clients |-> IF stream_type = "video"
                       THEN m.video_clients \cup {t}
                       ELSE m.video_clients,
     audio_clients |-> IF stream_type = "video"
                       THEN m.audio_clients
                       ELSE m.audio_clients \cup {t}]

\* _register_client with > for >= in the capacity test
register_client_off_by_one(m, t, stream_type, maxsize) ==
    IF Count(m) > max_clients
    THEN [ok |-> FALSE, m |-> m]
    ELSE [ok |-> TRUE, m |-> Inserted(m, t, stream_type, maxsize)]

\* _register_client that admits one client less than max_clients
register_client_one_less(m, t, stream_type, maxsize) ==
    IF Count(m) + 1 >= max_clients
    THEN [ok |-> FALSE, m |-> m]
    ELSE [ok |-> TRUE, m |-> Inserted(m, t, stream_type, maxsize)]

\* _register_client that stores the object before it tests the capacity
register_client_insert_first(m, t, stream_type, maxsize) ==
    IF Count(m) >= max_clients
    THEN [ok |-> FALSE, m |-> Inserted(m, t, stream_type, maxsize)]
    ELSE [ok |-> TRUE, m |-> Inserted(m, t, stream_type, maxsize)]

\* ConnectionManager._register_client, creating the object in slot t:
\* [ok: a buffer was returned (FALSE: None), m: the manager afterwards]
register_client(m, t, stream_type, maxsize) ==
    IF Count(m) >= max_clients
    THEN [ok |-> FALSE, m |-> m]
    ELSE [ok |-> TRUE, m |-> Inserted(m, t, stream_type, maxsize)]

\* register_video_client / register_audio_client as the handlers call them
register_video_client(m, t) == register_client(m, t, "video", frame_buffer_size)
register_audio_client(m, t) == register_client(m, t, "audio", buffer_size)

\* unregister_client that closes the buffer and leaves it in the registry
unregister_client_no_pop(m, t) ==
    [client |-> [m.client EXCEPT ![t] = close(@)],
     video_clients |-> m.video_clients,
     audio_clients |-> m.audio_clients]

\* unregister_client that pops from the dictionary of the other type
unregister_client_wrong_dict(m, t) ==
    [client |-> [m.client EXCEPT ![t] = close(@)],
     video_clients |-> IF m.client[t].stream_type = "video"
                       THEN m.video_clients
                       ELSE m.video_clients \ {t},
     audio_clients |-> IF m.client[t].stream_type = "video"
                       THEN m.audio_clients \ {t}
                       ELSE m.audio_clients]

\* ConnectionManager.unregister_client on the object in slot t
unregister_client(m, t) ==
    [client |-> [m.client EXCEPT ![t] = close(@)],
     video_clients |-> IF m.client[t].stream_type = "video"
                       THEN m.video_clients \ {t}
                       ELSE m.video_clients,
     audio_clients |-> IF m.client[t].stream_type = "video"
                       THEN m.audio_clients
                       ELSE m.audio_clients \ {t}]

\* broadcast_video where one lagging client costs every client a drop
broadcast_video_shared_drop(m, frame) ==
    LET res == [t \in m.video_clients |-> put_nowait(m.client[t], frame)]
        lag == \E t \in m.video_clients : m.client[t].queue # <<>>
    IN  [m |-> [client |-> [t \in Tasks |->
                              IF t \in m.video_clients
                              THEN [res[t].c EXCEPT
                                      !.frames_dropped =
                                          m.client[t].frames_dropped
                                          + (IF lag THEN 1 ELSE 0)]
                              ELSE m.client[t]],
                video_clients |-> m.video_clients,
                audio_clients |-> m.audio_clients],
         sent_count |-> Cardinality(m.video_clients),
         accepted |-> m.video_clients]

\* a broadcast_video that leaves the buffers that refused the frame registered
broadcast_video_keep_dead(m, frame) ==
    LET res == [t \in m.video_clients |-> put_nowait(m.client[t], frame)]
    IN  [m |-> [client |-> [t \in Tasks |-> IF t \in m.video_clients
                                            THEN res[t].c ELSE m.client[t]],
                video_clients |-> m.video_clients,
                audio_clients |-> m.audio_clients],
         sent_count |-> Cardinality({t \in m.video_clients : res[t].ok}),
         accepted |-> {t \in m.video_clients : res[t].ok}]

\* ConnectionManager.broadcast_video: [m, sent_count, accepted: the buffers
\* whose put_nowait returned True]
broadcast_video(m, frame) ==
    LET res == [t \in m.video_clients |-> put_nowait(m.client[t], frame)]
        dead_clients == {t \in m.video_clients : ~res[t].ok}
    IN  [m |-> [client |-> [t \in Tasks |-> IF t \in m.video_clients
                                            THEN res[t].c ELSE m.client[t]],
                video_clients |-> m.video_clients \ dead_clients,
                audio_clients |-> m.audio_clients],
         sent_count |-> Cardinality({t \in m.video_clients : res[t].ok}),
         accepted |-> {t \in m.video_clients : res[t].ok}]

\* ConnectionManager.broadcast_audio
broadcast_audio(m, chunk) ==
    LET res == [t \in m.audio_clients |->
                  IF qsize(m.client[t]) < AudioQsizeLimit
                  THEN put_nowait(m.client[t], chunk)
                  ELSE [ok |-> FALSE, c |-> m.client[t]]]
        dead_clients == {t \in m.audio_clients :
                           ~res[t].ok /\ ~res[t].c.active}
    IN  [m |-> [client |-> [t \in Tasks |-> IF t \in m.audio_clients
                                            THEN res[t].c ELSE m.client[t]],
                video_clients |-> m.video_clients,
                audio_clients |-> m.audio_clients \ dead_clients],
         sent_count |-> Cardinality({t \in m.audio_clients : res[t].ok}),
         accepted |-> {t \in m.audio_clients : res[t].ok}]

\* a get that returns the head of the queue and leaves it there
get_no_pop(c) ==
    IF ~c.active \/ c.queue = <<>> THEN [item |-> 0, c |-> c]
    ELSE [item |-> Head(c.queue), c |-> c]

\* ClientQueue.get: [item: the chunk returned (0: None), c: the object
\* afterwards].  A closed buffer returns None at once; an empty queue makes
\* the reader wait, and the wait ends with a chunk (a later step) or with
\* the timeout, which returns None.
\* a dequeue that hands the chunk out and leaves it in the queue
get_leaves_item(c) ==
    IF ~c.active THEN [item |-> 0, c |-> c]
    ELSE IF c.queue = <<>> THEN [item |-> 0, c |-> c]
    ELSE [item |-> Head(c.queue), c |-> c]

get(c) ==
    IF ~c.active THEN [item |-> 0, c |-> c]
    ELSE IF c.queue = <<>> THEN [item |-> 0, c |-> c]
    ELSE [item |-> Head(c.queue), c |-> [c EXCEPT !.queue = Tail(@)]]

\* whether the code of an operation that adds to or removes from the
\* registry runs inside "async with self._lock": _register_client,
\* unregister_client and cleanup_inactive do, broadcast_video and
\* broadcast_audio are plain functions that never acquire it
HoldsLock ==
    [register_client |-> TRUE, unregister_client |-> TRUE,
     broadcast_video |-> FALSE, broadcast_audio |-> FALSE,
     cleanup_inactive |-> TRUE]

\* the lock record after operation op has turned the registry into that of
\* m2: a change made without the lock is remembered
Mutated(op, m2) ==
    unlocked \/ (~HoldsLock[op] /\ Registered(m2) # Registered(CM))

NoCall == [op |-> "none", slot |-> 0, val |-> "none"]

\* the locals of a supervisor task: the processes of its cycle that its
\* readers hold (cv, ca), the list _kill_processes iterates over and its
\* position in it, the exception on its way out of the cycle (exc), the
\* consecutive short cycles so far and the delay slept since the last one
NoLocals == [cv |-> 0, ca |-> 0, klist |-> <<0, 0>>, kpos |-> 0,
             exc |-> "none", shorts |-> 0, slept |-> 0]

\* the locals of the stop call: the state it was called in, the task that
\* was _task then, the list of _kill_processes, the task it awaits
NoStop == [called_in |-> "none", task_then |-> 0, klist |-> <<0, 0>>,
           kpos |-> 0, awaited |-> 0]

NoRespawn == [shorts |-> 0, delay |-> 0]

\* no configuration has been loaded.  A string is its sequence of
\* characters; an Optional is <<>> for None and <<x>> for the value x
NoConfig ==
    [file_path |-> <<>>, resolution |-> <<>>, quality |-> <<>>,
     growing_file |-> FALSE]

\* no static request is being served
NoPath == [req |-> FALSE, segs |-> <<>>]

\* no body waiting to be sent
NoBody == [src |-> "none", data |-> 0]

Init ==
    /\ client = [t \in Tasks |-> NoClient]
    /\ video_clients = {}
    /\ audio_clients = {}
    /\ current_frame = 0
    /\ produced = 0
    /\ pc = [t \in Tasks |-> "idle"]
    /\ kind = [t \in Tasks |-> "none"]
    /\ pending = [t \in Tasks |-> NoBody]
    /\ resp = [t \in Tasks |-> <<>>]
    /\ offered = [t \in Tasks |-> <<>>]
    /\ got = [t \in Tasks |-> <<>>]
    /\ unregs = [t \in Tasks |-> 0]
    /\ nAdmit = 0
    /\ nUnreg = 0
    /\ requests = 0
    /\ freed = "no"
    /\ ret = NoCall
    /\ state = "STOPPED"
    /\ task = 0
    /\ video_process = 0
    /\ audio_process = 0
    /\ ffmpeg_pids = {}
    /\ shutdown_event = FALSE
    /\ alive = {}
    /\ reaped = {}
    /\ tpc = [k \in TaskIds |-> "none"]
    /\ tlocal = [k \in TaskIds |-> NoLocals]
    /\ cancel_req = {}
    /\ spc = "idle"
    /\ slocal = NoStop
    /\ nStart = 0
    /\ nStop = 0
    /\ nSpawn = 0
    /\ start_ret = "none"
    /\ respawn = NoRespawn
    /\ disconnected = {}
    /\ timeouts = [t \in Tasks |-> 0]
    /\ unlocked = FALSE
    /\ path = NoPath
    /\ static_resp = <<>>
    /\ frame_cycle = {}
    /\ wrote = <<>>
    /\ pipe = <<>>
    /\ vbuf = <<>>
    /\ jpegs = <<>>
    /\ video_config = NoConfig
    /\ ffmpeg_args = <<>>
    /\ lifespan = "none"

\* ------------------------------------------------------------ ASGI messages
StartMsg(status) ==
    [type |-> "http.response.start", status |-> status, src |-> "none",
     data |-> 0]

\* src says where the body bytes came from: "error" (send_error), "current"
\* (broadcaster.current_frame), "wav" (the WAV header), "queue" (client.get)
BodyMsg(src, data) ==
    [type |-> "http.response.body", status |-> 0, src |-> src, data |-> data]

\* --------------------------------------------------------- stream handlers
\* where a handler is when handle is over: it has returned through its
\* finally ("done") or after send_error ("err_done"), or an exception has
\* left it ("raised", "err_raised")
Ended == {"done", "raised", "err_done", "err_raised"}

\* no task is in the middle of ending: a task whose handle is over ends
\* (Return) before the event loop runs anything else
Settled == \A t \in Tasks : pc[t] \notin Ended

\* the registry bookkeeping shared by every step that calls
\* connection_manager.unregister_client(client) for task t
CallUnregister(t) ==
    LET m == unregister_client(CM, t)
    IN  /\ client' = m.client
        /\ video_clients' = m.video_clients
        /\ audio_clients' = m.audio_clients
        /\ unregs' = [unregs EXCEPT ![t] = @ + 1]
        /\ nUnreg' = IF t \in Registered(CM) THEN nUnreg + 1 ELSE nUnreg
        /\ freed' = IF t \in Registered(CM) /\ Count(CM) >= max_clients
                    THEN "freed" ELSE freed

\* the slots a new handler task and its buffer can take: no handler is
\* running there and the registry holds no object there
FreeSlots ==
    {t \in Tasks : pc[t] = "idle" /\ t \notin Registered(CM)}

\* A stream request is dispatched to VideoStreamHandler.handle or
\* AudioStreamHandler.handle in task slot t; the handler runs up to its first
\* suspension: register, then the await of the first send.  Slots are
\* interchangeable, so the request takes the lowest free one.
Request(t, k) ==
    /\ Settled
    /\ t \in FreeSlots
    /\ \A u \in FreeSlots : t <= u
    /\ requests < MaxRequests
    /\ LET r == IF k = "video" THEN register_video_client(CM, t)
                               ELSE register_audio_client(CM, t)
       IN  /\ client' = r.m.client
           /\ video_clients' = r.m.video_clients
           /\ audio_clients' = r.m.audio_clients
           /\ pc' = [pc EXCEPT ![t] = IF r.ok THEN "start200" ELSE "err_start"]
           /\ nAdmit' = IF r.ok THEN nAdmit + 1 ELSE nAdmit
           /\ freed' = IF freed = "freed"
                       THEN (IF r.ok THEN "reused" ELSE "denied")
                       ELSE freed
    /\ kind' = [kind EXCEPT ![t] = k]
    /\ requests' = requests + 1
    /\ UNCHANGED <<current_frame, produced, pending, resp, offered, got,
                   unregs, nUnreg, ret>>
    /\ UNCHANGED bvars
    /\ UNCHANGED nvars

\* send_error: the 503 response start is sent
SendErrorStart(t) ==
    /\ Settled
    /\ pc[t] = "err_start"
    /\ resp' = [resp EXCEPT ![t] = Append(@, StartMsg(503))]
    /\ pc' = [pc EXCEPT ![t] = "err_body"]
    /\ UNCHANGED <<client, video_clients, audio_clients, current_frame,
                   produced, kind, pending, offered, got, unregs, nAdmit,
                   nUnreg, requests, freed, ret>>
    /\ UNCHANGED bvars
    /\ UNCHANGED nvars

\* send_error: the 503 body is sent and handle returns
SendErrorBody(t) ==
    /\ Settled
    /\ pc[t] = "err_body"
    /\ resp' = [resp EXCEPT ![t] = Append(@, BodyMsg("error", 0))]
    /\ pc' = [pc EXCEPT ![t] = "err_done"]
    /\ UNCHANGED <<client, video_clients, audio_clients, current_frame,
                   produced, kind, pending, offered, got, unregs, nAdmit,
                   nUnreg, requests, freed, ret>>
    /\ UNCHANGED bvars
    /\ UNCHANGED nvars

\* a send of send_error raises (or the task is cancelled there): the
\* exception leaves handle
FailError(t) ==
    /\ Settled
    /\ pc[t] \in {"err_start", "err_body"}
    /\ pc' = [pc EXCEPT ![t] = "err_raised"]
    /\ UNCHANGED <<client, video_clients, audio_clients, current_frame,
                   produced, kind, pending, resp, offered, got, unregs,
                   nAdmit, nUnreg, requests, freed, ret>>
    /\ UNCHANGED bvars
    /\ UNCHANGED nvars

\* the 200 response start is sent; the handler goes on to its next await:
\* video reads broadcaster.current_frame and sends it if there is one,
\* audio sends the WAV header
SendStart(t) ==
    /\ Settled
    /\ pc[t] = "start200"
    /\ resp' = [resp EXCEPT ![t] = Append(@, StartMsg(200))]
    /\ IF kind[t] = "video"
       THEN IF current_frame # 0
            THEN /\ pending' = [pending EXCEPT
                                  ![t] = [src |-> "current",
                                          data |-> current_frame]]
                 /\ pc' = [pc EXCEPT ![t] = "first"]
            ELSE /\ pending' = pending
                 /\ pc' = [pc EXCEPT ![t] = "get"]
       ELSE /\ pending' = [pending EXCEPT
                             ![t] = [src |-> "wav", data |-> 0]]
            /\ pc' = [pc EXCEPT ![t] = "first"]
    /\ UNCHANGED <<client, video_clients, audio_clients, current_frame,
                   produced, kind, offered, got, unregs, nAdmit,
                   nUnreg, requests, freed, ret>>
    /\ UNCHANGED bvars
    /\ UNCHANGED nvars

\* the send of the 200 response start raises or is cancelled: it is outside
\* the try, so the exception leaves handle and unregister is not called
FailStart(t) ==
    /\ Settled
    /\ pc[t] = "start200"
    /\ pc' = [pc EXCEPT ![t] = "raised"]
    /\ UNCHANGED <<client, video_clients, audio_clients, current_frame,
                   produced, kind, pending, resp, offered, got, unregs,
                   nAdmit, nUnreg, requests, freed, ret>>
    /\ UNCHANGED bvars
    /\ UNCHANGED nvars

\* the first body (current frame / WAV header) is sent; the loop starts
SendFirst(t) ==
    /\ Settled
    /\ pc[t] = "first"
    /\ resp' = [resp EXCEPT
                  ![t] = Append(@, BodyMsg(pending[t].src, pending[t].data))]
    /\ pending' = [pending EXCEPT ![t] = NoBody]
    /\ pc' = [pc EXCEPT ![t] = "get"]
    /\ UNCHANGED <<client, video_clients, audio_clients, current_frame,
                   produced, kind, offered, got, unregs, nAdmit,
                   nUnreg, requests, freed, ret>>
    /\ UNCHANGED bvars
    /\ UNCHANGED nvars

\* the send of the first body raises or is cancelled.  Video sends it inside
\* the try: except, then finally unregisters.  Audio sends the WAV header
\* before the try: the exception leaves handle.
FailFirst(t) ==
    /\ Settled
    /\ pc[t] = "first"
    /\ pending' = [pending EXCEPT ![t] = NoBody]
    /\ IF kind[t] = "video"
       THEN /\ CallUnregister(t)
            /\ pc' = [pc EXCEPT ![t] = "done"]
       ELSE /\ pc' = [pc EXCEPT ![t] = "raised"]
            /\ UNCHANGED <<client, video_clients, audio_clients, unregs,
                           nUnreg, freed>>
    /\ UNCHANGED <<current_frame, produced, kind, resp, offered, got, nAdmit,
                   requests, ret>>
    /\ UNCHANGED bvars
    /\ UNCHANGED nvars

\* one turn of the forwarding loop up to its send: client.get returns; None
\* (timeout) continues the loop, a chunk is handed to send
GetChunk(t) ==
    /\ Settled
    /\ pc[t] = "get"
    /\ LET r == get(client[t])
       IN  /\ client' = [client EXCEPT ![t] = r.c]
           /\ IF r.item = 0
              THEN UNCHANGED <<pc, pending, got, timeouts>>
              ELSE /\ pc' = [pc EXCEPT ![t] = "send"]
                   /\ timeouts' = [timeouts EXCEPT ![t] = 0]
                   /\ pending' = [pending EXCEPT
                                    ![t] = [src |-> "queue", data |-> r.item]]
                   /\ got' = [got EXCEPT ![t] = Append(@, r.item)]
    /\ UNCHANGED <<video_clients, audio_clients, current_frame, produced,
                   kind, resp, offered, unregs, nAdmit, nUnreg,
                   requests, freed, ret>>
    /\ UNCHANGED bvars
    /\ UNCHANGED <<disconnected, unlocked, path, static_resp, frame_cycle>>
    /\ UNCHANGED xvars

\* the handler task is cancelled while it waits in client.get: get lets
\* CancelledError through, the handler's except catches it, finally unregisters
CancelGet(t) ==
    /\ Settled
    /\ pc[t] = "get"
    /\ CallUnregister(t)
    /\ pc' = [pc EXCEPT ![t] = "done"]
    /\ UNCHANGED <<current_frame, produced, kind, pending, resp, offered, got,
                   nAdmit, requests, ret>>
    /\ UNCHANGED bvars
    /\ UNCHANGED nvars

\* the dequeued chunk is sent; the loop goes back to client.get
SendChunk(t) ==
    /\ Settled
    /\ pc[t] = "send"
    /\ resp' = [resp EXCEPT
                  ![t] = Append(@, BodyMsg(pending[t].src, pending[t].data))]
    /\ pending' = [pending EXCEPT ![t] = NoBody]
    /\ pc' = [pc EXCEPT ![t] = "get"]
    /\ UNCHANGED <<client, video_clients, audio_clients, current_frame,
                   produced, kind, offered, got, unregs, nAdmit,
                   nUnreg, requests, freed, ret>>
    /\ UNCHANGED bvars
    /\ UNCHANGED nvars

\* a loop that goes on to the next dequeue after a send that raised
FailChunk_continues(t) ==
    /\ Settled
    /\ pc[t] = "send"
    /\ pending' = [pending EXCEPT ![t] = NoBody]
    /\ pc' = [pc EXCEPT ![t] = "get"]
    /\ UNCHANGED <<client, video_clients, audio_clients, unregs, nUnreg,
                   freed>>
    /\ UNCHANGED <<current_frame, produced, kind, resp, offered, got, nAdmit,
                   requests, ret>>
    /\ UNCHANGED bvars
    /\ UNCHANGED nvars

\* the send of a chunk raises or is cancelled: break, finally unregisters
FailChunk(t) ==
    /\ Settled
    /\ pc[t] = "send"
    /\ pending' = [pending EXCEPT ![t] = NoBody]
    /\ CallUnregister(t)
    /\ pc' = [pc EXCEPT ![t] = "done"]
    /\ UNCHANGED <<current_frame, produced, kind, resp, offered, got, nAdmit,
                   requests, ret>>
    /\ UNCHANGED bvars
    /\ UNCHANGED nvars

\* ------------------------------------------------------------- broadcaster
\* a frame reader that waits until every video client has taken the last frame
ReadVideoFrame_blocking ==
    /\ Settled
    /\ \A t \in video_clients : client[t].queue = <<>>
    /\ produced < MaxChunks
    /\ LET frame == produced + 1
           b == broadcast_video(CM, frame)
       IN  /\ produced' = frame
           /\ current_frame' = frame
           /\ client' = b.m.client
           /\ video_clients' = b.m.video_clients
           /\ audio_clients' = b.m.audio_clients
           /\ unlocked' = Mutated("broadcast_video", b.m)
           /\ offered' = [t \in Tasks |-> IF t \in b.accepted
                                          THEN Append(offered[t], frame)
                                          ELSE offered[t]]
    /\ UNCHANGED <<pc, kind, pending, resp, got, unregs, nAdmit,
                   nUnreg, requests, freed, ret>>
    /\ UNCHANGED bvars
    /\ UNCHANGED <<disconnected, timeouts, path, static_resp, frame_cycle>>
    /\ UNCHANGED xvars

\* _read_video_frames: one JPEG is cut from the child's output, stored as
\* the current frame and broadcast
ReadVideoFrame ==
    /\ Settled
    /\ produced < MaxChunks
    /\ LET frame == produced + 1
           b == broadcast_video(CM, frame)
       IN  /\ produced' = frame
           /\ current_frame' = frame
           /\ client' = b.m.client
           /\ video_clients' = b.m.video_clients
           /\ audio_clients' = b.m.audio_clients
           /\ unlocked' = Mutated("broadcast_video", b.m)
           /\ offered' = [t \in Tasks |-> IF t \in b.accepted
                                          THEN Append(offered[t], frame)
                                          ELSE offered[t]]
    /\ UNCHANGED <<pc, kind, pending, resp, got, unregs, nAdmit,
                   nUnreg, requests, freed, ret>>
    /\ UNCHANGED bvars
    /\ UNCHANGED <<disconnected, timeouts, path, static_resp, frame_cycle>>
    /\ UNCHANGED xvars

\* _read_audio_chunks: one chunk is read from the child and broadcast
ReadAudioChunk ==
    /\ Settled
    /\ produced < MaxChunks
    /\ LET chunk == produced + 1
           b == broadcast_audio(CM, chunk)
       IN  /\ produced' = chunk
           /\ client' = b.m.client
           /\ video_clients' = b.m.video_clients
           /\ audio_clients' = b.m.audio_clients
           /\ unlocked' = Mutated("broadcast_audio", b.m)
           /\ offered' = [t \in Tasks |-> IF t \in b.accepted
                                          THEN Append(offered[t], chunk)
                                          ELSE offered[t]]
    /\ UNCHANGED <<current_frame, pc, kind, pending, resp, got, unregs,
                   nAdmit, nUnreg, requests, freed, ret>>
    /\ UNCHANGED bvars
    /\ UNCHANGED <<disconnected, timeouts, path, static_resp, frame_cycle>>
    /\ UNCHANGED xvars

\* handle is over: the task ends in the same event-loop step, its locals are
\* released, and with them the buffer unless the registry still holds it
Return(t) ==
    /\ pc[t] \in Ended
    /\ pc' = [pc EXCEPT ![t] = "idle"]
    /\ kind' = [kind EXCEPT ![t] = "none"]
    /\ pending' = [pending EXCEPT ![t] = NoBody]
    /\ resp' = [resp EXCEPT ![t] = <<>>]
    /\ unregs' = [unregs EXCEPT ![t] = 0]
    /\ IF t \in Registered(CM)
       THEN UNCHANGED <<client, offered, got>>
       ELSE /\ client' = [client EXCEPT ![t] = NoClient]
            /\ offered' = [offered EXCEPT ![t] = <<>>]
            /\ got' = [got EXCEPT ![t] = <<>>]
    /\ UNCHANGED <<video_clients, audio_clients, current_frame, produced,
                   nAdmit, nUnreg, requests, freed, ret>>
    /\ UNCHANGED bvars
    /\ disconnected' = disconnected \ {t}
    /\ timeouts' = [timeouts EXCEPT ![t] = 0]
    /\ UNCHANGED <<unlocked, path, static_resp, frame_cycle>>
    /\ UNCHANGED xvars

Handler(t) ==
    \/ \E k \in StreamTypes : Request(t, k)
    \/ SendErrorStart(t)
    \/ SendErrorBody(t)
    \/ FailError(t)
    \/ SendStart(t)
    \/ FailStart(t)
    \/ SendFirst(t)
    \/ FailFirst(t)
    \/ GetChunk(t)
    \/ CancelGet(t)
    \/ SendChunk(t)
    \/ FailChunk(t)

Next ==
    \/ \E t \in Tasks : Handler(t)
    \/ ReadVideoFrame
    \/ ReadAudioChunk
    \/ \E t \in Tasks : Return(t)

Spec == Init /\ [][Next]_vars

\* ------------------------------------- disconnects and dequeue timeouts
\* a handler that gives up at the first timeout: break, finally unregisters
GetTimeout_gives_up(t) ==
    /\ Settled
    /\ pc[t] = "get"
    /\ get(client[t]).item = 0
    /\ timeouts[t] < MaxTimeouts
    /\ timeouts' = [timeouts EXCEPT ![t] = @ + 1]
    /\ CallUnregister(t)
    /\ pc' = [pc EXCEPT ![t] = "done"]
    /\ UNCHANGED <<current_frame, produced, kind, pending, resp, offered, got,
                   nAdmit, requests, ret>>
    /\ UNCHANGED <<disconnected, unlocked, path, static_resp, frame_cycle>>
    /\ UNCHANGED xvars
    /\ UNCHANGED bvars

\* client.get returns None because its timeout has passed with the queue
\* empty: the handler continues its loop and calls client.get again
\* (the timeouts in a row are counted up to MaxTimeouts; further ones
\* leave the state as it is)
GetTimeout(t) ==
    /\ Settled
    /\ pc[t] = "get"
    /\ get(client[t]).item = 0
    /\ timeouts' = [timeouts EXCEPT
                      ![t] = IF @ < MaxTimeouts THEN @ + 1 ELSE @]
    /\ UNCHANGED <<disconnected, unlocked, path, static_resp, frame_cycle>>
    /\ UNCHANGED xvars
    /\ UNCHANGED cvars
    /\ UNCHANGED bvars

\* The HTTP client of the stream in slot t goes away.  The server would
\* hand the handler an http.disconnect message through receive, which the
\* handlers never call; a later send may raise or may be dropped silently.
Disconnect(t) ==
    /\ Settled
    /\ pc[t] \in {"start200", "first", "get", "send"}
    /\ t \notin disconnected
    /\ disconnected' = disconnected \cup {t}
    /\ UNCHANGED <<timeouts, unlocked, path, static_resp, frame_cycle>>
    /\ UNCHANGED xvars
    /\ UNCHANGED cvars
    /\ UNCHANGED bvars

\* the streams of clients that may go away while the source may be silent:
\* the sends of the headers and of the first body succeed, no handler task
\* is cancelled, and a rejected request stays suspended in its first send
HNext ==
    \/ \E t \in Tasks, k \in StreamTypes : Request(t, k)
    \/ \E t \in Tasks : SendStart(t)
    \/ \E t \in Tasks : SendFirst(t)
    \/ \E t \in Tasks : GetChunk(t)
    \/ \E t \in Tasks : SendChunk(t)
    \/ \E t \in Tasks : FailChunk(t)
    \/ \E t \in Tasks : GetTimeout(t)
    \/ \E t \in Tasks : Disconnect(t)
    \/ ReadVideoFrame
    \/ ReadAudioChunk
    \/ \E t \in Tasks : Return(t)

\* The event loop runs every handler that is ready: a send completes (it
\* returns or raises), a dequeue returns when a chunk is there or its
\* timeout has passed, a handler that is over ends.  Nothing is assumed of
\* the arrival of requests, of the readers (the source may be silent), of
\* disconnects or of cancellation.
HFairness ==
    \A t \in Tasks :
        /\ WF_vars(SendStart(t))
        /\ WF_vars(SendFirst(t))
        /\ WF_vars(SendChunk(t) \/ FailChunk(t))
        /\ WF_vars(GetChunk(t))
        /\ WF_vars(GetTimeout(t))
        /\ WF_vars(Return(t))

HLive == Init /\ [][HNext]_vars /\ HFairness

\* ------------------------------------------------- the API called directly
\* The public operations of connection.py called in any order by a caller
\* that keeps the handles register returned (as a test of the module does):
\* slot t is a variable of the caller holding a handle.
HandlerVars == <<pc, kind, pending, resp, unregs, current_frame>>

\* register_video_client / register_audio_client
ApiRegister(t, k) ==
    /\ client[t] = NoClient
    /\ \A u \in Tasks : client[u] = NoClient => t <= u
    /\ requests < MaxRequests
    /\ LET r == IF k = "video" THEN register_video_client(CM, t)
                               ELSE register_audio_client(CM, t)
       IN  /\ client' = r.m.client
           /\ video_clients' = r.m.video_clients
           /\ audio_clients' = r.m.audio_clients
           /\ nAdmit' = IF r.ok THEN nAdmit + 1 ELSE nAdmit
           /\ freed' = IF freed = "freed"
                       THEN (IF r.ok THEN "reused" ELSE "denied")
                       ELSE freed
           /\ ret' = NoCall
    /\ requests' = requests + 1
    /\ UNCHANGED <<produced, offered, got, nUnreg>>
    /\ UNCHANGED HandlerVars
    /\ UNCHANGED bvars
    /\ UNCHANGED nvars

\* unregister_client(handle), for any handle the caller holds
ApiUnregister(t) ==
    /\ client[t] # NoClient
    /\ LET m == unregister_client(CM, t)
       IN  /\ client' = m.client
           /\ video_clients' = m.video_clients
           /\ audio_clients' = m.audio_clients
    /\ nUnreg' = IF t \in Registered(CM) THEN nUnreg + 1 ELSE nUnreg
    /\ freed' = IF t \in Registered(CM) /\ Count(CM) >= max_clients
                THEN "freed" ELSE freed
    /\ ret' = [op |-> "unregister", slot |-> t,
               val |-> IF t \in Registered(CM) THEN "removed" ELSE "absent"]
    /\ UNCHANGED <<produced, offered, got, nAdmit, requests>>
    /\ UNCHANGED HandlerVars
    /\ UNCHANGED bvars
    /\ UNCHANGED nvars

\* the caller drops an unregistered handle: the object is gone
ApiRelease(t) ==
    /\ client[t] # NoClient
    /\ t \notin Registered(CM)
    /\ client' = [client EXCEPT ![t] = NoClient]
    /\ offered' = [offered EXCEPT ![t] = <<>>]
    /\ got' = [got EXCEPT ![t] = <<>>]
    /\ ret' = NoCall
    /\ UNCHANGED <<video_clients, audio_clients, produced, nAdmit, nUnreg,
                   requests, freed>>
    /\ UNCHANGED HandlerVars
    /\ UNCHANGED bvars
    /\ UNCHANGED nvars

\* broadcast_video(frame) / broadcast_audio(chunk)
ApiBroadcast(k) ==
    /\ produced < MaxChunks
    /\ LET chunk == produced + 1
           b == IF k = "video" THEN broadcast_video(CM, chunk)
                               ELSE broadcast_audio(CM, chunk)
       IN  /\ produced' = chunk
           /\ client' = b.m.client
           /\ video_clients' = b.m.video_clients
           /\ audio_clients' = b.m.audio_clients
           /\ unlocked' = Mutated(IF k = "video" THEN "broadcast_video"
                                  ELSE "broadcast_audio", b.m)
           /\ offered' = [t \in Tasks |-> IF t \in b.accepted
                                          THEN Append(offered[t], chunk)
                                          ELSE offered[t]]
           /\ ret' = NoCall
    /\ UNCHANGED <<got, nAdmit, nUnreg, requests, freed>>
    /\ UNCHANGED HandlerVars
    /\ UNCHANGED bvars
    /\ UNCHANGED <<disconnected, timeouts, path, static_resp, frame_cycle>>
    /\ UNCHANGED xvars

\* await handle.get(): a chunk, or None (closed, or the timeout)
ApiGet(t) ==
    /\ client[t] # NoClient
    /\ LET r == get(client[t])
       IN  /\ client' = [client EXCEPT ![t] = r.c]
           /\ got' = [got EXCEPT
                        ![t] = IF r.item = 0 THEN @ ELSE Append(@, r.item)]
           /\ ret' = NoCall
    /\ UNCHANGED <<video_clients, audio_clients, produced, offered, nAdmit,
                   nUnreg, requests, freed>>
    /\ UNCHANGED HandlerVars
    /\ UNCHANGED bvars
    /\ UNCHANGED nvars

ApiNext ==
    \/ \E t \in Tasks, k \in StreamTypes : ApiRegister(t, k)
    \/ \E t \in Tasks : ApiUnregister(t)
    \/ \E t \in Tasks : ApiRelease(t)
    \/ \E k \in StreamTypes : ApiBroadcast(k)
    \/ \E t \in Tasks : ApiGet(t)

ApiSpec == Init /\ [][ApiNext]_vars

\* handle.close(): the caller closes a buffer it holds, registered or not
ApiClose(t) ==
    /\ client[t] # NoClient
    /\ client[t].active
    /\ client' = [client EXCEPT ![t] = close(client[t])]
    /\ ret' = NoCall
    /\ UNCHANGED <<video_clients, audio_clients, produced, offered, got,
                   nAdmit, nUnreg, requests, freed>>
    /\ UNCHANGED HandlerVars
    /\ UNCHANGED bvars
    /\ UNCHANGED nvars

\* the API with ClientQueue.close among the calls: a buffer can be closed
\* while the registry still holds it.  Nothing is dequeued here.
CloseNext ==
    \/ \E t \in Tasks, k \in StreamTypes : ApiRegister(t, k)
    \/ \E t \in Tasks : ApiUnregister(t)
    \/ \E t \in Tasks : ApiRelease(t)
    \/ \E t \in Tasks : ApiClose(t)
    \/ \E k \in StreamTypes : ApiBroadcast(k)

CloseSpec == Init /\ [][CloseNext]_vars

\* cleanup_inactive(timeout): under the lock, every registered buffer whose
\* last_activity lies more than timeout seconds back is taken out of its
\* dictionary.  dead is that set of buffers.
cleanup_inactive(m, dead) ==
    [m EXCEPT !.video_clients = @ \ dead, !.audio_clients = @ \ dead]

\* await cleanup_inactive(): time is not modelled, so any registered buffers
\* may be the ones that saw no enqueue for longer than the timeout
ApiCleanup(dead) ==
    /\ dead # {}
    /\ dead \subseteq Registered(CM)
    /\ LET m == cleanup_inactive(CM, dead)
       IN  /\ client' = m.client
           /\ video_clients' = m.video_clients
           /\ audio_clients' = m.audio_clients
    /\ ret' = NoCall
    /\ UNCHANGED <<produced, offered, got, nAdmit, nUnreg, requests, freed>>
    /\ UNCHANGED HandlerVars
    /\ UNCHANGED bvars
    /\ UNCHANGED nvars

\* the API with every Connection Manager operation that removes buffers
CleanNext ==
    \/ \E t \in Tasks, k \in StreamTypes : ApiRegister(t, k)
    \/ \E t \in Tasks : ApiUnregister(t)
    \/ \E t \in Tasks : ApiRelease(t)
    \/ \E t \in Tasks : ApiClose(t)
    \/ \E k \in StreamTypes : ApiBroadcast(k)
    \/ \E dead \in SUBSET Tasks : ApiCleanup(dead)

CleanSpec == Init /\ [][CleanNext]_vars

\* ---------------------------------------------- the broadcaster's lifecycle
\* start, stop and the supervisor task (_broadcast_loop) of
\* src/services/broadcaster.py.  A step runs a coroutine from one suspension
\* point to the next.  A child is spawned when create_subprocess_exec is
\* called and the call then suspends until the child's pipes are connected;
\* a call cancelled while it is suspended kills its child (asyncio does).
\* The source is a file, so every cycle has an audio child.  The readers of a
\* cycle are folded into the supervisor: the video reader has ended when its
\* child's output is at its end or _shutdown_event is set.

\* "process and process.returncode is None" of _kill_processes, with rp the
\* children whose returncode is set
NeedsKill(p, rp) == p # 0 /\ p \notin rp

\* the first entry of lst at position from or later that _kill_processes
\* kills and waits for (0: none)
FirstToKill(lst, from, rp) ==
    IF from <= 1 /\ NeedsKill(lst[1], rp) THEN 1
    ELSE IF from <= 2 /\ NeedsKill(lst[2], rp) THEN 2
    ELSE 0

\* the supervisor tasks that exist and are not done
LiveTasks == {k \in TaskIds : tpc[k] \notin {"none", "finished"}}

\* the supervisor tasks that are inside _broadcast_loop and have no cancel
\* on its way
RunningTasks == {k \in LiveTasks : tpc[k] # "created" /\ k \notin cancel_req}

\* a start that returns early only when the state is RUNNING
Start_only_running ==
    /\ nStart < MaxStarts
    /\ nStart' = nStart + 1
    /\ IF state = "RUNNING"
       THEN /\ start_ret' = "already"
            /\ UNCHANGED <<state, shutdown_event, task, tpc>>
       ELSE /\ state' = "STARTING"
            /\ shutdown_event' = FALSE
            /\ LET k == Cardinality({j \in TaskIds : tpc[j] # "none"}) + 1
               IN  /\ tpc' = [tpc EXCEPT ![k] = "created"]
                   /\ task' = k
            /\ start_ret' = "started"
    /\ UNCHANGED <<video_process, audio_process, ffmpeg_pids, alive, reaped,
                   tlocal, cancel_req, spc, slocal, nStop, nSpawn, respawn>>
    /\ UNCHANGED cvars
    /\ UNCHANGED nvars

\* MediaBroadcaster.start (ensure_broadcaster_running): it has no await, so
\* it is one step.  create_task does not raise, so the except branch that
\* sets ERROR is not taken.
Start ==
    /\ nStart < MaxStarts
    /\ nStart' = nStart + 1
    /\ IF state \in {"RUNNING", "STARTING"}
       THEN /\ start_ret' = "already"
            /\ UNCHANGED <<state, shutdown_event, task, tpc>>
       ELSE /\ state' = "STARTING"
            /\ shutdown_event' = FALSE
            /\ LET k == Cardinality({j \in TaskIds : tpc[j] # "none"}) + 1
               IN  /\ tpc' = [tpc EXCEPT ![k] = "created"]
                   /\ task' = k
            /\ start_ret' = "started"
    /\ UNCHANGED <<video_process, audio_process, ffmpeg_pids, alive, reaped,
                   tlocal, cancel_req, spc, slocal, nStop, nSpawn, respawn>>
    /\ UNCHANGED cvars
    /\ UNCHANGED nvars

\* _broadcast_loop leaves its loop: the state becomes STOPPED, the task is done
LoopExit(k) ==
    /\ state' = "STOPPED"
    /\ tpc' = [tpc EXCEPT ![k] = "finished"]
    /\ tlocal' = [tlocal EXCEPT ![k] = NoLocals]

\* a loop without the "except Exception" of _broadcast_loop: a creation
\* that raises ends the loop
LoopTop_ends_on_error(k, loc, st) ==
    IF shutdown_event
    THEN /\ LoopExit(k)
         /\ UNCHANGED <<alive, nSpawn, respawn>>
    ELSE /\ nSpawn < MaxSpawns
         /\ nSpawn' = nSpawn + 1
         /\ respawn' = [shorts |-> loc.shorts, delay |-> loc.slept]
         /\ \/ /\ state' = st
               /\ alive' = alive \cup {nSpawn + 1}
               /\ tpc' = [tpc EXCEPT ![k] = "create_video"]
               /\ tlocal' = [tlocal EXCEPT
                               ![k] = [NoLocals EXCEPT !.cv = nSpawn + 1,
                                                       !.shorts = loc.shorts]]
            \/ /\ alive' = alive
               /\ LoopExit(k)

\* the while test of _broadcast_loop and, if it passes, _run_broadcast_cycle
\* up to its first suspension, the creation of the video child; st is the
\* state the loop leaves as it is, loc the task's locals.  A creation that
\* raises ends the cycle at once, and the loop sleeps 1.0 s.
LoopTop(k, loc, st) ==
    IF shutdown_event
    THEN /\ LoopExit(k)
         /\ UNCHANGED <<alive, nSpawn, respawn>>
    ELSE /\ nSpawn < MaxSpawns
         /\ state' = st
         /\ nSpawn' = nSpawn + 1
         /\ respawn' = [shorts |-> loc.shorts, delay |-> loc.slept]
         /\ \/ /\ alive' = alive \cup {nSpawn + 1}
               /\ tpc' = [tpc EXCEPT ![k] = "create_video"]
               /\ tlocal' = [tlocal EXCEPT
                               ![k] = [NoLocals EXCEPT !.cv = nSpawn + 1,
                                                       !.shorts = loc.shorts]]
            \/ /\ alive' = alive
               /\ tpc' = [tpc EXCEPT ![k] = "sleep"]
               /\ tlocal' = [tlocal EXCEPT
                               ![k] = [NoLocals EXCEPT
                                         !.shorts = loc.shorts]]

\* _kill_processes called by supervisor task k from the finally of
\* _run_broadcast_cycle, from entry from of the list lst on: it kills the
\* next child that needs it and suspends in process.wait(), or, with none
\* left, clears both references and returns; then the cycle is over and a
\* CancelledError on its way out ends the loop, otherwise the loop goes on
SupervisorKill(k, loc, lst, from, rp) ==
    LET pos == FirstToKill(lst, from, rp)
    IN  IF pos # 0
        THEN /\ alive' = alive \ {lst[pos]}
             /\ tpc' = [tpc EXCEPT ![k] = "kill"]
             /\ tlocal' = [tlocal EXCEPT
                             ![k] = [loc EXCEPT !.klist = lst, !.kpos = pos]]
             /\ UNCHANGED <<video_process, audio_process, state, nSpawn,
                            respawn>>
        ELSE /\ video_process' = 0
             /\ audio_process' = 0
             /\ IF loc.exc = "cancelled"
                THEN LoopExit(k) /\ UNCHANGED <<alive, nSpawn, respawn>>
                ELSE LoopTop(k, loc, state)

\* the supervisor task runs for the first time: _broadcast_loop sets RUNNING
\* and enters its loop
TaskRun(k) ==
    /\ tpc[k] = "created"
    /\ k \notin cancel_req
    /\ LoopTop(k, NoLocals, "RUNNING")
    /\ UNCHANGED <<task, video_process, audio_process, ffmpeg_pids,
                   shutdown_event, reaped, cancel_req, spc, slocal, nStart,
                   nStop, start_ret>>
    /\ UNCHANGED cvars
    /\ UNCHANGED nvars

\* _create_video_process returns: the pid is tracked, _video_process is set,
\* and _create_audio_process spawns the audio child (or raises: the exception
\* leaves the cycle before its try, and the loop sleeps 1.0 s)
VideoCreated(k) ==
    /\ tpc[k] = "create_video"
    /\ k \notin cancel_req
    /\ nSpawn < MaxSpawns
    /\ ffmpeg_pids' = ffmpeg_pids \cup {tlocal[k].cv}
    /\ video_process' = tlocal[k].cv
    /\ \/ /\ nSpawn' = nSpawn + 1
          /\ alive' = alive \cup {nSpawn + 1}
          /\ tpc' = [tpc EXCEPT ![k] = "create_audio"]
          /\ tlocal' = [tlocal EXCEPT ![k].ca = nSpawn + 1]
       \/ /\ nSpawn' = nSpawn             \* no child: no number is used up
          /\ alive' = alive
          /\ tpc' = [tpc EXCEPT ![k] = "sleep"]
          /\ tlocal' = [tlocal EXCEPT
                          ![k] = [NoLocals EXCEPT
                                    !.shorts = tlocal[k].shorts]]
    /\ UNCHANGED <<state, task, audio_process, shutdown_event, reaped,
                   cancel_req, spc, slocal, nStart, nStop, start_ret,
                   respawn>>
    /\ UNCHANGED cvars
    /\ UNCHANGED nvars

\* _create_audio_process returns: the pid is tracked, _audio_process is set,
\* the readers are started and the cycle waits for them
AudioCreated(k) ==
    /\ tpc[k] = "create_audio"
    /\ k \notin cancel_req
    /\ ffmpeg_pids' = ffmpeg_pids \cup {tlocal[k].ca}
    /\ audio_process' = tlocal[k].ca
    /\ tpc' = [tpc EXCEPT ![k] = "wait"]
    /\ UNCHANGED <<state, task, video_process, shutdown_event, alive, reaped,
                   tlocal, cancel_req, spc, slocal, nStart, nStop, nSpawn,
                   start_ret, respawn>>
    /\ UNCHANGED cvars
    /\ UNCHANGED nvars

\* the video reader has ended (its child's output is over, or
\* _shutdown_event is set): the audio reader is cancelled and the finally of
\* the cycle calls _kill_processes.  short: the cycle ran less than 10 s.
\* a restart that empties the registry
CycleEnd_drops_clients(k) ==
    /\ tpc[k] = "wait"
    /\ k \notin cancel_req
    /\ tlocal[k].cv \notin alive \/ shutdown_event
    /\ \E short \in BOOLEAN :
         SupervisorKill(k,
                        [tlocal[k] EXCEPT
                           !.shorts = IF short THEN @ + 1 ELSE 0],
                        <<video_process, audio_process>>, 1, reaped)
    /\ video_clients' = {}
    /\ audio_clients' = {}
    /\ UNCHANGED <<task, ffmpeg_pids, shutdown_event, reaped, cancel_req, spc,
                   slocal, nStart, nStop, start_ret>>
    /\ UNCHANGED <<client, current_frame, produced, pc, kind, pending, resp,
                   offered, got, unregs, nAdmit, nUnreg, requests, freed,
                   ret>>
    /\ UNCHANGED nvars

CycleEnd(k) ==
    /\ tpc[k] = "wait"
    /\ k \notin cancel_req
    /\ tlocal[k].cv \notin alive \/ shutdown_event
    /\ \E short \in BOOLEAN :
         SupervisorKill(k,
                        [tlocal[k] EXCEPT
                           !.shorts = IF short THEN @ + 1 ELSE 0],
                        <<video_process, audio_process>>, 1, reaped)
    /\ UNCHANGED <<task, ffmpeg_pids, shutdown_event, reaped, cancel_req, spc,
                   slocal, nStart, nStop, start_ret>>
    /\ UNCHANGED cvars
    /\ UNCHANGED nvars

\* process.wait() of the supervisor's _kill_processes returns: the pid is
\* discarded and the list is gone through further
KillResume(k) ==
    /\ tpc[k] = "kill"
    /\ k \notin cancel_req
    /\ LET p == tlocal[k].klist[tlocal[k].kpos]
       IN  /\ reaped' = reaped \cup {p}
           /\ ffmpeg_pids' = ffmpeg_pids \ {p}
           /\ SupervisorKill(k, tlocal[k], tlocal[k].klist,
                             tlocal[k].kpos + 1, reaped \cup {p})
    /\ UNCHANGED <<task, shutdown_event, cancel_req, spc, slocal, nStart,
                   nStop, start_ret>>
    /\ UNCHANGED cvars
    /\ UNCHANGED nvars

\* the 1.0 s sleep after a cycle that raised is over: back to the while test
SleepDone(k) ==
    /\ tpc[k] = "sleep"
    /\ k \notin cancel_req
    /\ LoopTop(k, [tlocal[k] EXCEPT !.slept = 1], state)
    /\ UNCHANGED <<task, video_process, audio_process, ffmpeg_pids,
                   shutdown_event, reaped, cancel_req, spc, slocal, nStart,
                   nStop, start_ret>>
    /\ UNCHANGED cvars
    /\ UNCHANGED nvars

\* the cancel() of stop reaches supervisor task k: CancelledError is raised
\* where the task is suspended
TaskCancelled(k) ==
    /\ k \in cancel_req
    /\ tpc[k] \notin {"none", "finished"}
    /\ cancel_req' = cancel_req \ {k}
    /\ CASE tpc[k] = "created" ->
              \* the coroutine never runs
              /\ tpc' = [tpc EXCEPT ![k] = "finished"]
              /\ UNCHANGED <<state, tlocal, alive, ffmpeg_pids, video_process,
                             audio_process, nSpawn, respawn>>
         [] tpc[k] = "create_video" ->
              \* outside the try of the cycle: the loop's except breaks
              /\ alive' = alive \ {tlocal[k].cv}
              /\ LoopExit(k)
              /\ UNCHANGED <<ffmpeg_pids, video_process, audio_process,
                             nSpawn, respawn>>
         [] tpc[k] = "create_audio" ->
              /\ alive' = alive \ {tlocal[k].ca}
              /\ LoopExit(k)
              /\ UNCHANGED <<ffmpeg_pids, video_process, audio_process,
                             nSpawn, respawn>>
         [] tpc[k] = "wait" ->
              \* inside the try: the finally calls _kill_processes
              /\ SupervisorKill(k, [tlocal[k] EXCEPT !.exc = "cancelled"],
                                <<video_process, audio_process>>, 1, reaped)
              /\ UNCHANGED ffmpeg_pids
         [] tpc[k] = "kill" ->
              \* in process.wait(): the finally discards the pid, the rest
              \* of _kill_processes is skipped
              /\ ffmpeg_pids' =
                   ffmpeg_pids \ {tlocal[k].klist[tlocal[k].kpos]}
              /\ LoopExit(k)
              /\ UNCHANGED <<alive, video_process, audio_process, nSpawn,
                             respawn>>
         [] tpc[k] = "sleep" ->
              \* in the except handler: the error leaves _broadcast_loop
              /\ tpc' = [tpc EXCEPT ![k] = "finished"]
              /\ tlocal' = [tlocal EXCEPT ![k] = NoLocals]
              /\ UNCHANGED <<state, alive, ffmpeg_pids, video_process,
                             audio_process, nSpawn, respawn>>
    /\ UNCHANGED <<task, shutdown_event, reaped, spc, slocal, nStart, nStop,
                   start_ret>>
    /\ UNCHANGED cvars
    /\ UNCHANGED nvars

\* _kill_processes called by stop, from entry from of the list lst on, and
\* what stop does when it returns: it cancels and awaits _task if it is not
\* done, else it sets STOPPED and returns
StopKill(loc, lst, from, rp) ==
    LET pos == FirstToKill(lst, from, rp)
    IN  IF pos # 0
        THEN /\ alive' = alive \ {lst[pos]}
             /\ spc' = "kill"
             /\ slocal' = [loc EXCEPT !.klist = lst, !.kpos = pos]
             /\ state' = "STOPPING"
             /\ UNCHANGED <<video_process, audio_process, cancel_req>>
        ELSE /\ video_process' = 0
             /\ audio_process' = 0
             /\ alive' = alive
             /\ IF task # 0 /\ tpc[task] # "finished"
                THEN /\ cancel_req' = cancel_req \cup {task}
                     /\ spc' = "await"
                     /\ slocal' = [loc EXCEPT !.awaited = task]
                     /\ state' = "STOPPING"
                ELSE /\ state' = "STOPPED"
                     /\ spc' = "returned"
                     /\ slocal' = loc
                     /\ UNCHANGED cancel_req

\* MediaBroadcaster.stop is called (lifespan shutdown, signal handler) and
\* runs to its first suspension
StopCall ==
    /\ spc = "idle"
    /\ nStop < MaxStops
    /\ nStop' = nStop + 1
    /\ IF state = "STOPPED"
       THEN /\ spc' = "returned"
            /\ slocal' = [NoStop EXCEPT !.called_in = state,
                                        !.task_then = task]
            /\ UNCHANGED <<state, shutdown_event, alive, video_process,
                           audio_process, cancel_req>>
       ELSE /\ shutdown_event' = TRUE
            /\ StopKill([NoStop EXCEPT !.called_in = state,
                                       !.task_then = task],
                        <<video_process, audio_process>>, 1, reaped)
    /\ UNCHANGED <<task, ffmpeg_pids, reaped, tpc, tlocal, nStart, nSpawn,
                   start_ret, respawn>>
    /\ UNCHANGED cvars
    /\ UNCHANGED nvars

\* process.wait() of stop's _kill_processes returns
StopKillResume ==
    /\ spc = "kill"
    /\ LET p == slocal.klist[slocal.kpos]
       IN  /\ reaped' = reaped \cup {p}
           /\ ffmpeg_pids' = ffmpeg_pids \ {p}
           /\ StopKill(slocal, slocal.klist, slocal.kpos + 1,
                       reaped \cup {p})
    /\ UNCHANGED <<task, shutdown_event, tpc, tlocal, nStart, nStop, nSpawn,
                   start_ret, respawn>>
    /\ UNCHANGED cvars
    /\ UNCHANGED nvars

\* the task stop awaits is done: stop sets STOPPED and returns
StopAwaited ==
    /\ spc = "await"
    /\ tpc[slocal.awaited] = "finished"
    /\ state' = "STOPPED"
    /\ spc' = "returned"
    /\ UNCHANGED <<task, video_process, audio_process, ffmpeg_pids,
                   shutdown_event, alive, reaped, tpc, tlocal, cancel_req,
                   slocal, nStart, nStop, nSpawn, start_ret, respawn>>
    /\ UNCHANGED cvars
    /\ UNCHANGED nvars

\* the caller of stop goes on
StopReturn ==
    /\ spc = "returned"
    /\ spc' = "idle"
    /\ slocal' = NoStop
    /\ UNCHANGED <<state, task, video_process, audio_process, ffmpeg_pids,
                   shutdown_event, alive, reaped, tpc, tlocal, cancel_req,
                   nStart, nStop, nSpawn, start_ret, respawn>>
    /\ UNCHANGED cvars
    /\ UNCHANGED nvars

\* a child ends by itself: the file is over, or ffmpeg fails
ChildExits(p) ==
    /\ p \in alive
    /\ alive' = alive \ {p}
    /\ UNCHANGED <<state, task, video_process, audio_process, ffmpeg_pids,
                   shutdown_event, reaped, tpc, tlocal, cancel_req, spc,
                   slocal, nStart, nStop, nSpawn, start_ret, respawn>>
    /\ UNCHANGED cvars
    /\ UNCHANGED nvars

\* the event loop learns that a tracked child has ended: its returncode is set
Reap(p) ==
    /\ p \in {video_process, audio_process}
    /\ p # 0
    /\ p \notin alive
    /\ p \notin reaped
    /\ reaped' = reaped \cup {p}
    /\ UNCHANGED <<state, task, video_process, audio_process, ffmpeg_pids,
                   shutdown_event, alive, tpc, tlocal, cancel_req, spc,
                   slocal, nStart, nStop, nSpawn, start_ret, respawn>>
    /\ UNCHANGED cvars
    /\ UNCHANGED nvars

BNext ==
    \/ Start
    \/ \E k \in TaskIds : TaskRun(k)
    \/ \E k \in TaskIds : VideoCreated(k)
    \/ \E k \in TaskIds : AudioCreated(k)
    \/ \E k \in TaskIds : CycleEnd(k)
    \/ \E k \in TaskIds : KillResume(k)
    \/ \E k \in TaskIds : SleepDone(k)
    \/ \E k \in TaskIds : TaskCancelled(k)
    \/ StopCall
    \/ StopKillResume
    \/ StopAwaited
    \/ StopReturn
    \/ \E p \in Pids : ChildExits(p)
    \/ \E p \in Pids : Reap(p)

BSpec == Init /\ [][BNext]_vars

\* The event loop runs every task that is ready: a created task gets its
\* first run, a process creation and a process.wait() (bounded by the 3.0 s
\* of wait_for) complete, the readers of a cycle notice the end of their
\* child's output, a sleep ends.  Nothing is assumed of start, of stop, of
\* the children or of the delivery of a cancel.
BFairness ==
    \A k \in TaskIds :
        /\ WF_vars(TaskRun(k))
        /\ WF_vars(VideoCreated(k))
        /\ WF_vars(AudioCreated(k))
        /\ WF_vars(CycleEnd(k))
        /\ WF_vars(KillResume(k))
        /\ WF_vars(SleepDone(k))

BLive == BSpec /\ BFairness

\* ------------------------------------------------------- lifespan shutdown
\* The ASGI lifespan handler is the caller of stop: on lifespan.shutdown it
\* awaits broadcaster.stop() (StopCall and the steps of stop), and when
\* stop has returned it sends lifespan.shutdown.complete and returns.  An
\* http scope the server dispatches calls ensure_broadcaster_running (Start).
LifespanComplete ==
    /\ spc = "returned"
    /\ lifespan = "none"
    /\ spc' = "idle"
    /\ slocal' = NoStop
    /\ lifespan' = "complete"
    /\ UNCHANGED <<state, task, video_process, audio_process, ffmpeg_pids,
                   shutdown_event, alive, reaped, tpc, tlocal, cancel_req,
                   nStart, nStop, nSpawn, start_ret, respawn>>
    /\ UNCHANGED cvars
    /\ UNCHANGED <<disconnected, timeouts, unlocked, path, static_resp,
                   frame_cycle, wrote, pipe, vbuf, jpegs, video_config,
                   ffmpeg_args>>

LNext ==
    \/ Start
    \/ \E k \in TaskIds : TaskRun(k)
    \/ \E k \in TaskIds : VideoCreated(k)
    \/ \E k \in TaskIds : AudioCreated(k)
    \/ \E k \in TaskIds : CycleEnd(k)
    \/ \E k \in TaskIds : KillResume(k)
    \/ \E k \in TaskIds : SleepDone(k)
    \/ \E k \in TaskIds : TaskCancelled(k)
    \/ StopCall
    \/ StopKillResume
    \/ StopAwaited
    \/ LifespanComplete
    \/ \E p \in Pids : ChildExits(p)
    \/ \E p \in Pids : Reap(p)

LSpec == Init /\ [][LNext]_vars

\* ------------------------------------------- cycles and connected clients
\* The supervisor of a video-only device source together with arriving
\* stream requests: has_audio is false, so a cycle runs one child and one
\* reader.  A request registers its buffer and its handler then stays
\* suspended in its first send, so the buffers are written by the reader only.

\* _create_video_process has returned; no audio process is created, and the
\* video reader is started and waited for
VideoOnlyCreated(k) ==
    /\ tpc[k] = "create_video"
    /\ k \notin cancel_req
    /\ ffmpeg_pids' = ffmpeg_pids \cup {tlocal[k].cv}
    /\ video_process' = tlocal[k].cv
    /\ audio_process' = 0
    /\ tpc' = [tpc EXCEPT ![k] = "wait"]
    /\ UNCHANGED <<state, task, shutdown_event, alive, reaped, tlocal,
                   cancel_req, spc, slocal, nStart, nStop, nSpawn, start_ret,
                   respawn>>
    /\ UNCHANGED cvars
    /\ UNCHANGED nvars

\* the video reader of the running cycle reads one frame from its child
\* and broadcasts it
CycleReadVideo(k) ==
    /\ tpc[k] = "wait"
    /\ tlocal[k].cv \in alive
    /\ Settled
    /\ produced < MaxChunks
    /\ LET frame == produced + 1
           b == broadcast_video(CM, frame)
       IN  /\ produced' = frame
           /\ current_frame' = frame
           /\ client' = b.m.client
           /\ video_clients' = b.m.video_clients
           /\ audio_clients' = b.m.audio_clients
           /\ unlocked' = Mutated("broadcast_video", b.m)
           /\ offered' = [t \in Tasks |-> IF t \in b.accepted
                                          THEN Append(offered[t], frame)
                                          ELSE offered[t]]
           /\ frame_cycle' = frame_cycle \cup {<<frame, nSpawn>>}
    /\ UNCHANGED <<pc, kind, pending, resp, got, unregs, nAdmit,
                   nUnreg, requests, freed, ret>>
    /\ UNCHANGED bvars
    /\ UNCHANGED <<disconnected, timeouts, path, static_resp>>
    /\ UNCHANGED xvars

CNext ==
    \/ Start
    \/ \E k \in TaskIds : TaskRun(k)
    \/ \E k \in TaskIds : VideoOnlyCreated(k)
    \/ \E k \in TaskIds : CycleEnd(k)
    \/ \E k \in TaskIds : KillResume(k)
    \/ \E k \in TaskIds : SleepDone(k)
    \/ \E p \in Pids : ChildExits(p)
    \/ \E p \in Pids : Reap(p)
    \/ \E k \in TaskIds : CycleReadVideo(k)
    \/ \E t \in Tasks, k \in StreamTypes : Request(t, k)

CSpec == Init /\ [][CNext]_vars

\* ------------------------------------------------- the video byte stream
\* _read_video_frames of src/services/broadcaster.py on the bytes of its
\* child's stdout.  A byte is a number in 0..255; the child writes ISO BMFF
\* boxes (a 4-byte big-endian size, a 4-byte type, the payload), and the
\* reader takes the bytes in reads of any length.

\* the box types, as their four ASCII codes
BoxType ==
    [ftyp |-> <<102, 116, 121, 112>>, moov |-> <<109, 111, 111, 118>>,
     free |-> <<102, 114, 101, 101>>, skip |-> <<115, 107, 105, 112>>,
     moof |-> <<109, 111, 111, 102>>]

InitTypes == {"ftyp", "moov", "free", "skip"}

\* the payloads a box is written with: none, the start of a JPEG image, a
\* whole JPEG image (SOI FF D8 ... EOI FF D9)
Payloads == {<<>>, <<255, 216>>, <<255, 216, 255, 217>>}

Boxes == [type : DOMAIN BoxType, payload : Payloads]

\* a size as four bytes, most significant first
BigEndian32(n) ==
    <<(n \div 16777216) % 256, (n \div 65536) % 256, (n \div 256) % 256,
      n % 256>>

BoxSize(b) == 8 + Len(b.payload)

BoxBytes(b) == BigEndian32(BoxSize(b)) \o BoxType[b.type] \o b.payload

RECURSIVE StreamBytes(_)
StreamBytes(bs) ==
    IF bs = <<>> THEN <<>> ELSE BoxBytes(Head(bs)) \o StreamBytes(Tail(bs))

RECURSIVE find(_, _, _, _)
\* bytes.find of the two bytes a, b from the 1-based position `from` on:
\* the position of the first occurrence, 0 for Python's -1
find(buf, a, b, from) ==
    IF from + 1 > Len(buf) THEN 0
    ELSE IF buf[from] = a /\ buf[from + 1] = b THEN from
    ELSE find(buf, a, b, from + 1)

RECURSIVE ParseFrames(_, _)
\* the inner `while True` of _read_video_frames on `buffer`: the frames cut
\* out and what is left in `buffer` when the loop breaks
ParseFrames(buffer, frames) ==
    LET start == find(buffer, 255, 216, 1)
    IN  IF start = 0
        THEN [buffer |-> <<>>, frames |-> frames]
        ELSE LET end == find(buffer, 255, 217, start + 2)
             IN  IF end = 0
                 THEN [buffer |-> SubSeq(buffer, start, Len(buffer)),
                       frames |-> frames]
                 ELSE ParseFrames(SubSeq(buffer, end + 2, Len(buffer)),
                                  Append(frames,
                                         SubSeq(buffer, start, end + 1)))

\* the child writes one more box to its stdout
ChildWrites(b) ==
    /\ Len(wrote) < MaxBoxes
    /\ wrote' = Append(wrote, b)
    /\ pipe' = pipe \o BoxBytes(b)
    /\ UNCHANGED <<vbuf, jpegs, video_config, ffmpeg_args, lifespan>>
    /\ UNCHANGED <<disconnected, timeouts, unlocked, path, static_resp,
                   frame_cycle>>
    /\ UNCHANGED cvars
    /\ UNCHANGED bvars

\* one turn of the reader's outer loop while no video client is registered:
\* process.stdout.read returns the first n bytes of the pipe, they are
\* appended to `buffer`, and every complete frame found is stored as the
\* current frame and broadcast (to nobody)
ReadBytes(n) ==
    /\ n \in 1..Len(pipe)
    /\ video_clients = {}
    /\ LET r == ParseFrames(vbuf \o SubSeq(pipe, 1, n), <<>>)
           k == Len(r.frames)
       IN  /\ pipe' = SubSeq(pipe, n + 1, Len(pipe))
           /\ vbuf' = r.buffer
           /\ jpegs' = jpegs \o r.frames
           /\ produced' = produced + k
           /\ current_frame' = IF k > 0 THEN produced + k ELSE current_frame
    /\ UNCHANGED <<wrote, video_config, ffmpeg_args, lifespan>>
    /\ UNCHANGED <<disconnected, timeouts, unlocked, path, static_resp,
                   frame_cycle>>
    /\ UNCHANGED <<client, video_clients, audio_clients, pc, kind, pending,
                   resp, offered, got, unregs, nAdmit, nUnreg, requests,
                   freed, ret>>
    /\ UNCHANGED bvars

PNext ==
    \/ \E b \in Boxes : ChildWrites(b)
    \/ \E n \in 1..(MaxBoxes * 12) : ReadBytes(n)

PSpec == Init /\ [][PNext]_vars

\* ------------------------------------------------ transcoder arguments
\* VideoConfig (src/lib/config.py) and the argument lists built from it in
\* src/services/broadcaster.py.  VIDEO_QUALITY is a float; it is kept in
\* hundredths, and the scale factor, which the code formats with four
\* decimals, in ten-thousandths.
fps == 30             \* VideoConfig.fps
jpeg_quality == 5     \* VideoConfig.jpeg_quality

\* str.lower() of one character and of a string
LowerChar(c) ==
    CASE c = "A" -> "a" [] c = "D" -> "d" [] c = "E" -> "e" [] c = "H" -> "h"
      [] c = "P" -> "p" [] c = "S" -> "s" [] c = "T" -> "t" [] c = "V" -> "v"
      [] c = "X" -> "x" [] OTHER -> c

lower(str1) == [i \in 1..Len(str1) |-> LowerChar(str1[i])]

\* str.startswith
StartsWith(str1, prefix) ==
    Len(str1) >= Len(prefix) /\ SubSeq(str1, 1, Len(prefix)) = prefix

\* `sub in str1`
Contains(str1, sub) ==
    \E i \in 1..(Len(str1) - Len(sub) + 1) :
        SubSeq(str1, i, i + Len(sub) - 1) = sub

RECURSIVE IndexOf(_, _, _)
\* the first position of the character c from `from` on, 0 if there is none
IndexOf(str1, c, from) ==
    IF from > Len(str1) THEN 0
    ELSE IF str1[from] = c THEN from
    ELSE IndexOf(str1, c, from + 1)

RECURSIVE split(_, _)
\* str.split(c): the pieces between the occurrences of c
split(str1, c) ==
    LET i == IndexOf(str1, c, 1)
    IN  IF i = 0 THEN <<str1>>
        ELSE <<SubSeq(str1, 1, i - 1)>>
                 \o split(SubSeq(str1, i + 1, Len(str1)), c)

\* str.split(c, 1): at most two pieces
split1(str1, c) ==
    LET i == IndexOf(str1, c, 1)
    IN  IF i = 0 THEN <<str1>>
        ELSE <<SubSeq(str1, 1, i - 1), SubSeq(str1, i + 1, Len(str1))>>

Protocols ==
    {<<"r", "t", "s", "p", ":", "/", "/">>,
     <<"r", "t", "m", "p", ":", "/", "/">>,
     <<"h", "t", "t", "p", ":", "/", "/">>,
     <<"h", "t", "t", "p", "s", ":", "/", "/">>,
     <<"s", "r", "t", ":", "/", "/">>,
     <<"u", "d", "p", ":", "/", "/">>,
     <<"t", "c", "p", ":", "/", "/">>,
     <<"r", "t", "p", ":", "/", "/">>}

AvPrefix == <<"a", "v", "f", "o", "u", "n", "d", "a", "t", "i", "o", "n", ":">>
DevVideo == <<"/", "d", "e", "v", "/", "v", "i", "d", "e", "o">>

\* detect_source_type(path), with the GROWING_FILE hint of the environment
detect_source_type(path1, growing) ==
    LET path_lower == lower(path1)
    IN  IF \E proto \in Protocols : StartsWith(path_lower, proto)
        THEN "LIVE_STREAM"
        ELSE IF StartsWith(path_lower, AvPrefix) THEN "DEVICE"
        ELSE IF StartsWith(path1, DevVideo) THEN "DEVICE"
        ELSE IF Contains(path_lower, <<"v", "i", "d", "e", "o", "=">>)
                  \/ StartsWith(path_lower, <<"d", "s", "h", "o", "w", ":">>) THEN "DEVICE"
        ELSE IF growing THEN "GROWING_FILE"
        ELSE "FILE"

source_type(cfg) == detect_source_type(cfg.file_path, cfg.growing_file)

is_live_source(cfg) == source_type(cfg) \in {"LIVE_STREAM", "DEVICE"}

can_loop(cfg) == source_type(cfg) = "FILE"

\* max(0.0, min(1.0, quality)), in hundredths
Clamp(q) == IF q < 0 THEN 0 ELSE IF q > 100 THEN 100 ELSE q

\* round() of n hundredths: to the nearest integer, a tie to the even one
Round100(n) ==
    LET whole == n \div 100
        part == n % 100
    IN  IF part > 50 THEN whole + 1
        ELSE IF part < 50 THEN whole
        ELSE IF whole % 2 = 0 THEN whole ELSE whole + 1

\* VideoConfig.effective_jpeg_quality
effective_jpeg_quality(cfg) ==
    IF cfg.quality # <<>>
    THEN Round100(3100 - Clamp(cfg.quality[1]) * 29)
    ELSE jpeg_quality

\* VideoConfig.effective_scale, in ten-thousandths: Optional
effective_scale(cfg) ==
    IF cfg.quality # <<>>
    THEN <<2500 + Clamp(cfg.quality[1]) * 75>>
    ELSE <<>>

\* one argument of the command line: a literal word s, or a word made from
\* the values v
Word(w) == [s |-> w, v |-> <<>>]
Made(w, vals) == [s |-> w, v |-> vals]

\* the -i operand _build_input_args ends with: the path, or the device
\* taken out of "avfoundation:video[:audio]"
InputPath(cfg, audio_only) ==
    LET path1 == cfg.file_path
    IN  IF source_type(cfg) = "DEVICE" /\ StartsWith(path1, AvPrefix)
        THEN LET device_spec == split1(path1, ":")[2]
             IN  IF IndexOf(device_spec, ":", 1) # 0
                 THEN IF audio_only
                      THEN <<":">> \o split1(device_spec, ":")[2]
                      ELSE split1(device_spec, ":")[1]
                 ELSE device_spec
        ELSE path1

\* MediaBroadcaster._build_input_args(audio_only)
build_input_args(cfg, audio_only) ==
    LET path1 == cfg.file_path
        st == source_type(cfg)
    IN  (IF ~is_live_source(cfg) THEN <<Word("-re")>> ELSE <<>>)
        \o (IF can_loop(cfg)
            THEN <<Word("-stream_loop"), Word("-1")>> ELSE <<>>)
        \o (IF st = "DEVICE" /\ StartsWith(path1, AvPrefix)
            THEN <<Word("-f"), Word("avfoundation")>>
            ELSE IF st = "DEVICE" /\ StartsWith(path1, DevVideo)
            THEN <<Word("-f"), Word("v4l2")>>
                     \o (IF ~audio_only
                         THEN <<Word("-framerate"), Made("int", <<fps>>)>>
                         ELSE <<>>)
            ELSE <<>>)
        \o (IF st = "LIVE_STREAM" /\ StartsWith(lower(path1), <<"r", "t", "s", "p", ":", "/", "/">>)
            THEN <<Word("-rtsp_transport"), Word("tcp")>> ELSE <<>>)
        \o (IF st = "LIVE_STREAM"
                  /\ (StartsWith(lower(path1), <<"h", "t", "t", "p", ":", "/", "/">>)
                        \/ StartsWith(lower(path1), <<"h", "t", "t", "p", "s", ":", "/", "/">>))
            THEN <<Word("-user_agent"), Word("Mozilla/5.0")>> ELSE <<>>)
        \o <<Word("-i"), Made("path", InputPath(cfg, audio_only))>>

\* the scale filter of _create_video_process
output_args(cfg) ==
    LET scale == effective_scale(cfg)
    IN  IF scale # <<>> /\ scale[1] < 10000
        THEN <<Word("-vf"), Made("scale=factor", scale)>>
        ELSE IF cfg.resolution # <<>>
        THEN LET parts == split(lower(cfg.resolution), "x")
             IN  IF Len(parts) = 2           \* otherwise ValueError: no filter
                 THEN <<Word("-vf"), Made("scale=w:h", parts)>>
                 ELSE <<>>
        ELSE <<>>

\* the command line _create_video_process starts ffmpeg with
video_command(cfg) ==
    <<Word("ffmpeg")>> \o build_input_args(cfg, FALSE) \o output_args(cfg)
        \o <<Word("-f"), Word("image2pipe"), Word("-vcodec"), Word("mjpeg"),
             Word("-q:v"), Made("int", <<effective_jpeg_quality(cfg)>>),
             Word("-r"), Made("int", <<fps>>), Word("-")>>

FilePaths ==
    {<<"r", "t", "s", "p", ":", "/", "/", "h">>,
     <<"h", "t", "t", "p", ":", "/", "/", "h">>,
     <<"h", "t", "t", "p", "s", ":", "/", "/", "h">>,
     <<"H", "T", "T", "P", ":", "/", "/", "h">>,
     <<"/", "d", "e", "v", "/", "v", "i", "d", "e", "o", "0">>,
     <<"a", "v", "f", "o", "u", "n", "d", "a", "t", "i", "o", "n", ":", "0">>,
     <<"a", "v", "f", "o", "u", "n", "d", "a", "t", "i", "o", "n", ":", "0", ":", "1">>,
     <<"v", "i", "d", "e", "o", "=", "c">>,
     <<"v", ".", "m", "p", "4">>}

Resolutions ==
    {<<>>, <<"4", "x", "3">>, <<"4", "X", "3">>, <<"4", "3">>, <<"4", "x", "3", "x", "2">>}

Qualities == {<<>>, <<0>>, <<50>>, <<100>>, <<150>>}

Configs ==
    [file_path : FilePaths, resolution : Resolutions, quality : Qualities,
     growing_file : BOOLEAN]

\* AppConfig.from_env: the configuration is read from the environment
FromEnv(cfg) ==
    /\ video_config = NoConfig
    /\ video_config' = cfg
    /\ UNCHANGED <<wrote, pipe, vbuf, jpegs, ffmpeg_args, lifespan>>
    /\ UNCHANGED <<disconnected, timeouts, unlocked, path, static_resp,
                   frame_cycle>>
    /\ UNCHANGED cvars
    /\ UNCHANGED bvars

\* _create_video_process builds the command line of the video child
CreateVideoCommand ==
    /\ video_config # NoConfig
    /\ ffmpeg_args = <<>>
    /\ ffmpeg_args' = video_command(video_config)
    /\ UNCHANGED <<wrote, pipe, vbuf, jpegs, video_config, lifespan>>
    /\ UNCHANGED <<disconnected, timeouts, unlocked, path, static_resp,
                   frame_cycle>>
    /\ UNCHANGED cvars
    /\ UNCHANGED bvars

ArgNext ==
    \/ \E cfg \in Configs : FromEnv(cfg)
    \/ CreateVideoCommand

ArgSpec == Init /\ [][ArgNext]_vars

\* ---------------------------------------------------------- static files
\* StreamingApp._serve_static of src/main.py.  A name is a sequence of
\* characters and a location a sequence of names, so that str() and
\* startswith() work on characters as they do in the code.
DotDot == <<".", ".">>
AppName == <<"a">>            \* the directory of main.py
PublicName == <<"p">>         \* "public"
SiblingName == <<"p", "x">>   \* a directory next to it whose name starts alike
FileName == <<"f">>
IndexName == <<"i">>          \* "index.html"

\* PUBLIC_DIR = Path(__file__).resolve().parent / "public"
PUBLIC_DIR == <<AppName, PublicName>>

\* the regular files of the file system
Files ==
    {<<AppName, PublicName, IndexName>>, <<AppName, PublicName, FileName>>,
     <<AppName, SiblingName, FileName>>, <<AppName, FileName>>}

\* the names a request path is made of
SegNames == {DotDot, PublicName, SiblingName, FileName}

\* the request paths: "/" and "/n1/.../nk"
RequestPaths == UNION {[1..n -> SegNames] : n \in 0..MaxSegs}

RECURSIVE resolve(_, _)
\* Path.resolve() of the absolute location acc / rest: ".." steps up, and
\* stays at the root when there is nothing to step out of
resolve(acc, rest) ==
    IF rest = <<>> THEN acc
    ELSE IF Head(rest) = DotDot
         THEN resolve(IF acc = <<>> THEN acc ELSE SubSeq(acc, 1, Len(acc) - 1),
                      Tail(rest))
         ELSE resolve(Append(acc, Head(rest)), Tail(rest))

RECURSIVE str(_)
\* str() of an absolute location: "/n1/n2/..." as characters ("/" for the root)
str(loc) ==
    IF loc = <<>> THEN <<"/">>
    ELSE IF Len(loc) = 1 THEN <<"/">> \o loc[1]
    ELSE str(SubSeq(loc, 1, Len(loc) - 1)) \o <<"/">> \o loc[Len(loc)]

\* a check that compares whole path components (Path.is_relative_to)
startswith_component(loc, dir) ==
    Len(loc) >= Len(dir) /\ SubSeq(loc, 1, Len(dir)) = dir

\* str(file_path).startswith(str(PUBLIC_DIR)), on the locations
startswith(loc, dir) ==
    LET s == str(loc)
        prefix == str(dir)
    IN  Len(s) >= Len(prefix) /\ SubSeq(s, 1, Len(prefix)) = prefix

\* "index.html" if path == "/" else path.lstrip("/"), as names
filename(segs) == IF segs = <<>> THEN <<IndexName>> ELSE segs

\* (PUBLIC_DIR / filename).resolve()
file_path(segs) == resolve(<<>>, PUBLIC_DIR \o filename(segs))

is_file(loc) == loc \in Files

\* status and body _serve_static answers a path with: the body is the
\* location of the file whose bytes are read, or the text of the error
StaticAnswer(segs) ==
    LET loc == file_path(segs)
    IN  IF ~startswith(loc, PUBLIC_DIR)
        THEN [status |-> 403, content |-> << <<"F">> >>]
        ELSE IF ~is_file(loc)
        THEN [status |-> 404, content |-> << <<"N">> >>]
        ELSE [status |-> 200, content |-> loc]

\* a request for a path that is no API route arrives: _serve_static runs to
\* its first send, which sends the response start
ServeStatic(segs) ==
    /\ ~path.req
    /\ path' = [req |-> TRUE, segs |-> segs]
    /\ static_resp' = <<[type |-> "http.response.start",
                         status |-> StaticAnswer(segs).status,
                         content |-> <<>>]>>
    /\ UNCHANGED <<disconnected, timeouts, unlocked, frame_cycle>>
    /\ UNCHANGED xvars
    /\ UNCHANGED cvars
    /\ UNCHANGED bvars

\* the response body is sent and _serve_static returns
StaticBody ==
    /\ path.req
    /\ Len(static_resp) = 1
    /\ static_resp' = Append(static_resp,
                             [type |-> "http.response.body",
                              status |-> 0,
                              content |-> StaticAnswer(path.segs).content])
    /\ UNCHANGED <<disconnected, timeouts, unlocked, path, frame_cycle>>
    /\ UNCHANGED xvars
    /\ UNCHANGED cvars
    /\ UNCHANGED bvars

StaticNext ==
    \/ \E segs \in RequestPaths : ServeStatic(segs)
    \/ StaticBody

StaticSpec == Init /\ [][StaticNext]_vars

\* ------------------------------------------------------------------ claims
Min(a, b) == IF a <= b THEN a ELSE b

IsPrefix(s, full) == Len(s) <= Len(full) /\ \A i \in 1..Len(s) : s[i] = full[i]

\* the last n elements of s
LastN(s, n) == SubSeq(s, Len(s) - n + 1, Len(s))

\* C1: in every reachable state the registry holds at most max_clients
\* buffers, video and audio together
C1_AtMostMaxClients == total_client_count <= max_clients

\* the registry is full with one buffer of each type, a request has been
\* turned away and a chunk has been broadcast
C1_Witness ==
    /\ total_client_count = max_clients
    /\ video_client_count = 1
    /\ audio_client_count = 1
    /\ nAdmit < requests
    /\ produced > 0

\* C2: the number of registered buffers equals the number of register calls
\* that returned a buffer minus the number of unregister_client calls made on
\* a buffer that was registered
C2_CountIsAdmittedMinusRemoved == total_client_count = nAdmit - nUnreg

\* buffers are registered, and the last call was an unregister_client of a
\* handle that was no longer registered
C2_Witness ==
    /\ total_client_count >= 1
    /\ nUnreg >= 1
    /\ ret.op = "unregister"
    /\ ret.val = "absent"

\* C3: a register call returns a buffer exactly when fewer than max_clients
\* buffers are registered at the call, and inserts it in the same step; as long
\* as nothing has been unregistered, of n requests min(n, max_clients) have
\* been admitted and the others rejected
C3_AdmissionIsExact ==
    /\ [](nUnreg = 0 => nAdmit = Min(requests, max_clients))
    /\ [][\A t \in Tasks, k \in StreamTypes :
            Request(t, k) =>
              /\ (pc'[t] = "start200") <=> (total_client_count < max_clients)
              /\ (pc'[t] = "err_start") <=> (total_client_count >= max_clients)
              /\ (pc'[t] = "start200") <=> (t \in Registered(CM)')
              /\ total_client_count' =
                   total_client_count + (IF pc'[t] = "start200" THEN 1 ELSE 0)
         ]_vars

\* more requests than max_clients have arrived at an empty registry, all
\* still open: max_clients were admitted and the others are on the 503 path
C3_Witness ==
    /\ requests = NumTasks
    /\ nUnreg = 0
    /\ nAdmit = max_clients
    /\ Cardinality({t \in Tasks : pc[t] = "err_start"}) = NumTasks - max_clients
    /\ Cardinality({t \in Tasks : pc[t] = "start200"}) = max_clients

\* the handler of task t was refused a buffer
Rejected(t) == pc[t] \in {"err_start", "err_body", "err_done", "err_raised"}

\* the complete response of a rejected request
ErrorResponse == <<StartMsg(503), BodyMsg("error", 0)>>

\* C4: a handler that was refused a buffer sends the 503 response and
\* returns: it sends nothing else (no 200 start, no chunk), never calls
\* unregister_client, holds no registered buffer, and none of its steps
\* changes the registry
C4_RejectedSends503Only ==
    /\ [](\A t \in Tasks :
            Rejected(t) =>
              /\ IsPrefix(resp[t], ErrorResponse)
              /\ pc[t] = "err_start" => resp[t] = <<>>
              /\ pc[t] = "err_body" => resp[t] = <<StartMsg(503)>>
              /\ pc[t] = "err_done" => resp[t] = ErrorResponse
              /\ unregs[t] = 0
              /\ pending[t] = NoBody
              /\ t \notin Registered(CM))
    /\ [][\A t \in Tasks :
            (Rejected(t)' /\ pc'[t] # pc[t]) =>
              UNCHANGED <<client, video_clients, audio_clients>>]_vars

\* a rejected handler has returned after the complete 503 response while the
\* registry is full
C4_Witness ==
    \E t \in Tasks :
        /\ pc[t] = "err_done"
        /\ resp[t] = ErrorResponse
        /\ total_client_count = max_clients

\* C5: after a handler's unregister_client has released a slot of a full
\* registry, the registry is below capacity until the next register call,
\* and that call is admitted
C5_ReleasedSlotIsReusable ==
    /\ freed # "denied"
    /\ freed = "freed" => total_client_count < max_clients

\* a request was admitted into the slot released at capacity, and the
\* registry is full again
C5_Witness ==
    /\ freed = "reused"
    /\ total_client_count = max_clients

\* C6: unregister_client leaves the handle closed and absent from the
\* registry and touches no other buffer; called on a handle that is already
\* closed and absent it changes nothing at all
C6_UnregisterIdempotent ==
    [][\A t \in Tasks :
         ApiUnregister(t) =>
           /\ ~client'[t].active
           /\ t \notin Registered(CM)'
           /\ \A u \in Tasks \ {t} :
                /\ client'[u] = client[u]
                /\ (u \in video_clients') <=> (u \in video_clients)
                /\ (u \in audio_clients') <=> (u \in audio_clients)
           /\ (~client[t].active /\ t \notin Registered(CM)) =>
                UNCHANGED <<client, video_clients, audio_clients>>
      ]_vars

\* unregister_client has just been called a second time on a handle, while
\* another buffer is registered and holds a chunk
C6_Witness ==
    /\ ret.op = "unregister"
    /\ ret.val = "absent"
    /\ ~client[ret.slot].active
    /\ \E u \in Registered(CM) : client[u].queue # <<>>

\* C7: chunks are discarded one at a time, oldest first, and only when the
\* buffer is full: a buffer of capacity maxsize that its reader has not read
\* from holds the last min(n, maxsize) of the n chunks broadcast to it, in
\* order
C7_KeepsLastChunks ==
    \A t \in Registered(CM) :
        got[t] = <<>> =>
          client[t].queue =
            LastN(offered[t], Min(Len(offered[t]), client[t].maxsize))

\* C8: frames_dropped counts every chunk put_nowait took into the buffer and
\* discarded: it is the number of chunks accepted minus those the reader got
\* and those still queued
C8_DropsCounted ==
    \A t \in Tasks :
        client[t] # NoClient =>
          client[t].frames_dropped =
            Len(offered[t]) - Len(got[t]) - Len(client[t].queue)

\* a buffer has discarded a chunk after its reader had read one
C8_Witness ==
    \E t \in Tasks :
        /\ client[t].frames_dropped >= 1
        /\ got[t] # <<>>

Bodies(t) == SelectSeq(resp[t], LAMBDA msg : msg.type = "http.response.body")

\* C10: the first body of every admitted client's response is the initial
\* segment (the current frame for video, the WAV header for audio): no
\* chunk from the buffer is sent before it
C10_InitialBodyFirst ==
    \A t \in Tasks :
        (~Rejected(t) /\ Bodies(t) # <<>>) =>
          Bodies(t)[1].src \in {"current", "wav"}

\* C11: the cached initial segment is written once: after it is populated no
\* later frame overwrites it, so every client that is sent it gets the same
\* bytes
C11_InitialSegmentWriteOnce ==
    /\ [][current_frame # 0 => current_frame' = current_frame]_vars
    /\ [](\A t, u \in Tasks :
            (/\ Bodies(t) # <<>> /\ Bodies(t)[1].src = "current"
             /\ Bodies(u) # <<>> /\ Bodies(u)[1].src = "current") =>
              Bodies(t)[1].data = Bodies(u)[1].data)

\* s is a subsequence of full: its elements, in order, among those of full
RECURSIVE IsSubseq(_, _)
IsSubseq(s, full) ==
    IF s = <<>> THEN TRUE
    ELSE IF full = <<>> THEN FALSE
    ELSE IF Head(s) = Head(full) THEN IsSubseq(Tail(s), Tail(full))
    ELSE IsSubseq(s, Tail(full))

\* no element of s occurs twice
NoDuplicates(s) == \A i, j \in 1..Len(s) : i # j => s[i] # s[j]

\* the chunks of the "queue" bodies task t has sent, in order
QueueBodies(t) ==
    [i \in 1..Len(SelectSeq(Bodies(t), LAMBDA msg : msg.src = "queue")) |->
        SelectSeq(Bodies(t), LAMBDA msg : msg.src = "queue")[i].data]

\* C12: the chunks a client has dequeued are, in order and without
\* duplicates, among the chunks broadcast to its buffer while it was
\* registered, and the handler forwards them in the order dequeued
C12_OrderPreserved ==
    \A t \in Tasks :
        /\ IsSubseq(got[t], offered[t])
        /\ NoDuplicates(got[t])
        /\ \A i \in 1..Len(offered[t]) : i > 1 => offered[t][i - 1] < offered[t][i]
        /\ (client[t] # NoClient /\ pc[t] # "idle") =>
             /\ IsPrefix(QueueBodies(t), got[t])
             /\ Len(got[t]) - Len(QueueBodies(t)) <= 1

\* a registered client has dequeued two chunks and forwarded both
C12_Witness ==
    \E t \in Tasks :
        /\ Len(got[t]) >= 2
        /\ QueueBodies(t) = got[t]
        /\ t \in Registered(CM)

\* C13: a broadcast changes each registered buffer as put_nowait on that
\* buffer alone does and touches no buffer of the other type; a buffer's drop
\* counter grows only in a step that found chunks in its own queue, so a
\* client that empties its buffer before every broadcast keeps it at 0
C13_ClientIsolation ==
    /\ [][ReadVideoFrame =>
            \A u \in Tasks :
                client'[u] = IF u \in video_clients
                             THEN put_nowait(client[u], produced + 1).c
                             ELSE client[u]]_vars
    /\ [][ReadAudioChunk =>
            \A u \in Tasks :
                client'[u] = IF u \in audio_clients /\ qsize(client[u]) < AudioQsizeLimit
                             THEN put_nowait(client[u], produced + 1).c
                             ELSE client[u]]_vars
    /\ [][\A u \in Tasks :
            (client[u] # NoClient /\ client'[u] # NoClient
             /\ client'[u].frames_dropped # client[u].frames_dropped) =>
              /\ client[u].queue # <<>>
              /\ client'[u].frames_dropped =
                   client[u].frames_dropped + Len(client[u].queue)]_vars

\* two video clients were sent the same frames: one read each before the
\* next came and lost nothing, the other read none and lost one
C13_Witness ==
    \E t, u \in video_clients :
        /\ client[t].frames_dropped = 0
        /\ Len(got[t]) >= 1
        /\ Len(offered[t]) >= 2
        /\ client[u].frames_dropped >= 1
        /\ got[u] = <<>>

\* C14: the reader tasks never wait for a client: whatever the buffers
\* hold, the next frame and the next audio chunk can be read and broadcast,
\* and the broadcast is over in that one step
C14_ProducerNeverWaits ==
    (Settled /\ produced < MaxChunks) =>
        /\ ENABLED ReadVideoFrame
        /\ ENABLED ReadAudioChunk

\* a frame was broadcast to a client that has never read and whose handler
\* has not even sent its response start, and the reader can go on
C14_Witness ==
    /\ produced >= 1
    /\ produced < MaxChunks
    /\ Settled
    /\ \E t \in video_clients :
         /\ pc[t] = "start200"
         /\ client[t].queue # <<>>
         /\ got[t] = <<>>

\* the buffer c filled to its capacity
Filled(c) == [c EXCEPT !.queue = [i \in 1..c.maxsize |-> 1]]

\* the manager with the buffer in slot t filled to its capacity
WithFilled(t) == [CM EXCEPT !.client[t] = Filled(client[t])]

\* C15: a broadcast never ends a connection: it leaves every buffer open and
\* registered and moves no handler, also when it finds chunks waiting (which
\* it drops) and when it finds the buffer filled to capacity
C15_OverflowKeepsConnection ==
    /\ [][(ReadVideoFrame \/ ReadAudioChunk) =>
            /\ video_clients' = video_clients
            /\ audio_clients' = audio_clients
            /\ pc' = pc
            /\ \A t \in Tasks : client'[t].active = client[t].active]_vars
    /\ [](\A t \in video_clients :
            LET b == broadcast_video(WithFilled(t), 1)
            IN  /\ t \in b.m.video_clients
                /\ t \in b.accepted
                /\ b.m.client[t].active)
    /\ [](\A t \in audio_clients :
            LET b == broadcast_audio(WithFilled(t), 1)
            IN  /\ t \in b.m.audio_clients
                /\ b.m.client[t].active)

\* a broadcast has dropped a waiting chunk of a client that is still
\* registered, open and in its forwarding loop
C15_Witness ==
    \E t \in Registered(CM) :
        /\ client[t].frames_dropped >= 1
        /\ client[t].active
        /\ pc[t] \in {"get", "send"}

\* C16: a start call made while the state is STARTING or RUNNING returns
\* True (start_ret "already" and "started" are both a return of True) and
\* changes nothing: no task is created, no child spawned, the state stays
C16_StartIdempotent ==
    [][(Start /\ state \in {"STARTING", "RUNNING"}) =>
         /\ start_ret' = "already"
         /\ LiveTasks' = LiveTasks
         /\ UNCHANGED <<state, task, tpc, tlocal, alive, nSpawn, ffmpeg_pids,
                        video_process, audio_process, shutdown_event,
                        cancel_req>>]_vars

\* start has just returned early while the broadcaster is RUNNING with its
\* one supervisor task and both children
C16_Witness ==
    /\ start_ret = "already"
    /\ state = "RUNNING"
    /\ Cardinality(LiveTasks) = 1
    /\ Cardinality(alive) = 2

\* C17: exactly one child is alive while the state is RUNNING, none in any
\* other state
C17_OneChildWhileRunning ==
    /\ state = "RUNNING" => Cardinality(alive) = 1
    /\ state # "RUNNING" => alive = {}

\* C18: when a stop call made in state RUNNING returns, _ffmpeg_pids is
\* empty, no child is alive, no supervisor task is left and the state is
\* STOPPED
C18_StopLeavesNothing ==
    (spc = "returned" /\ slocal.called_in = "RUNNING") =>
        /\ ffmpeg_pids = {}
        /\ alive = {}
        /\ LiveTasks = {}
        /\ state = "STOPPED"

\* C19: at most one supervisor task is running _broadcast_loop at any time
\* (a task that has not run yet or that has a cancel on its way is not
\* counted), and the task stop cancels and awaits is the one that was _task
\* when stop was called
C19_OneSupervisor ==
    /\ Cardinality(RunningTasks) <= 1
    /\ spc = "await" => slocal.awaited = slocal.task_then

\* C20: the delay slept before the respawn that follows the k-th
\* consecutive short cycle is min(2^(k-1), 30) seconds
C20_Backoff ==
    respawn.shorts >= 1 =>
        respawn.delay = Min(2 ^ (respawn.shorts - 1), 30)

\* the cycle of supervisor task k is over or has failed: its video child has
\* ended, its finally is killing the children, or the loop sleeps after an
\* error
CycleOver(k) ==
    \/ tpc[k] = "wait" /\ tlocal[k].cv \notin alive
    \/ tpc[k] = "kill"
    \/ tpc[k] = "sleep"

\* C21: a supervisor task ends only once stop has been called: the loop
\* test finds the shutdown event set, or the task's cancel is delivered or
\* is on its way out through the finally of the cycle; it never ends because
\* a child ended or a cycle raised.  And the supervisor does not stay for
\* ever at the end of a cycle: while stop has not been called and the run
\* has spawns left, it goes on to spawn the next cycle's child.
C21_LoopEndsOnlyOnStop ==
    /\ [][\A k \in TaskIds :
            (tpc[k] # "finished" /\ tpc'[k] = "finished")
                => /\ nStop > 0
                   /\ \/ shutdown_event
                      \/ k \in cancel_req
                      \/ tlocal[k].exc = "cancelled"]_vars
    /\ \A k \in TaskIds :
           []<>(~(CycleOver(k) /\ nStop = 0 /\ nSpawn < MaxSpawns))

\* a new cycle has been started after a child ended a short cycle, with no
\* stop call
C21_Witness ==
    /\ nStop = 0
    /\ respawn.shorts >= 1
    /\ \E k \in TaskIds : tpc[k] = "create_video"

\* C22: a handler that was admitted has called unregister_client exactly
\* once when it ends, whether it returned or an exception left it
C22_UnregisterExactlyOnce ==
    \A t \in Tasks : pc[t] \in {"done", "raised"} => unregs[t] = 1

\* C25: when the send of a dequeued chunk raises (the handler leaves its
\* send with nothing written), the handler is over in the same step: it has
\* called unregister_client once more, its buffer is closed and out of the
\* registry; and a handler that is over writes nothing more
C25_WriteErrorEndsLoop ==
    [][\A t \in Tasks :
         /\ (pc[t] = "send" /\ pc'[t] # "send" /\ resp'[t] = resp[t])
               => /\ pc'[t] = "done"
                  /\ unregs'[t] = unregs[t] + 1
                  /\ t \notin (video_clients' \cup audio_clients')
                  /\ ~client'[t].active
         /\ (pc[t] = "done" /\ resp'[t] # resp[t]) => resp'[t] = <<>>]_vars

\* a handler has ended after the send of a chunk it had dequeued raised: it
\* took one chunk more than it wrote
C25_Witness ==
    \E t \in Tasks :
        /\ pc[t] = "done"
        /\ unregs[t] = 1
        /\ Len(got[t]) = Len(QueueBodies(t)) + 1

\* the video handler in slot t has sent its headers and has neither sent
\* nor is about to send a cached initial body
NoInitialBody(t) ==
    /\ kind[t] = "video"
    /\ Len(resp[t]) >= 1
    /\ pending[t].src # "current"
    /\ \A i \in 1..Len(resp[t]) : resp[t][i].src # "current"

\* C29: a video handler that found no cached initial segment does not enter
\* the forwarding loop (it neither waits in client.get nor sends a chunk)
C29_NoInitNoLoop ==
    \A t \in Tasks : NoInitialBody(t) => pc[t] \notin {"get", "send"}

\* the registered buffers of stream type k that are open
OpenOf(k) ==
    {t \in (IF k = "video" THEN video_clients ELSE audio_clients) :
        client[t].active}

\* C28: a broadcast for stream type k leaves registered, for that type,
\* exactly the buffers that were registered and open (so no closed buffer
\* stays and no open one is removed), and leaves the other type's registry
\* as it was
C28_BroadcastPrunesClosed ==
    [][/\ ApiBroadcast("video")
            => /\ video_clients' = OpenOf("video")
               /\ audio_clients' = audio_clients
       /\ ApiBroadcast("audio")
            => /\ audio_clients' = OpenOf("audio")
               /\ video_clients' = video_clients]_vars

\* with no unregister call made, a closed buffer is out of the registry (a
\* broadcast removed it) while an open buffer that took the chunk is still
\* registered
C28_Witness ==
    /\ nUnreg = 0
    /\ ret = NoCall
    /\ \E t \in Tasks : /\ client[t] # NoClient
                        /\ ~client[t].active
                        /\ t \notin Registered(CM)
    /\ \E u \in Registered(CM) : client[u].active /\ offered[u] # <<>>

\* C30: no entry is added to or removed from the registry by code that does
\* not hold the lock
C30_MutationsUnderLock == ~unlocked

\* C23: once the client of a stream has gone away while its handler is in
\* the forwarding loop, the handler's buffer eventually leaves the registry,
\* whether or not the readers broadcast another chunk
C23_DisconnectReleasesSlot ==
    \A t \in Tasks :
        (t \in disconnected /\ pc[t] \in {"get", "send"})
            ~> (t \notin Registered(CM))

Asked == file_path(path.segs)

\* C27: a static request whose normalized location is neither the public
\* directory nor below it is answered 403 and no file is read for it; one
\* that is inside and is not an existing file is answered 404
C27_StaticStaysInPublic ==
    (path.req /\ Len(static_resp) = 2) =>
        /\ ~startswith_component(Asked, PUBLIC_DIR)
              => /\ static_resp[1].status = 403
                 /\ static_resp[2].content \notin Files
        /\ (startswith_component(Asked, PUBLIC_DIR) /\ ~is_file(Asked))
              => static_resp[1].status = 404

\* the buffers that are registered and open
Connected == {t \in Registered(CM) : client[t].active}

\* C26: no step of the supervisor (a child exiting, the cycle ending, the
\* kill, the respawn) unregisters, closes or otherwise touches a client
\* buffer, and a frame the reader of any cycle broadcasts is enqueued to
\* every open video buffer registered at that moment, whichever cycle the
\* buffer was registered in
C26_RestartKeepsClients ==
    [][/\ bvars' # bvars
           => /\ UNCHANGED <<client, video_clients, audio_clients, offered>>
              /\ Connected' = Connected
       /\ \A f \in Chunks, n \in Pids :
            <<f, n>> \in frame_cycle' \ frame_cycle
              => \A t \in video_clients :
                   client[t].active
                     => /\ t \in video_clients'
                        /\ client'[t].active
                        /\ offered'[t] = Append(offered[t], f)]_vars

\* a buffer that was offered a frame of one cycle is still registered and
\* open after the child exited and the cycle restarted, and holds a frame
\* of the next cycle
C26_Witness ==
    \E t \in Connected, f \in Chunks, g \in Chunks, n \in Pids :
        /\ n + 1 \in Pids
        /\ <<f, n>> \in frame_cycle
        /\ <<g, n + 1>> \in frame_cycle
        /\ \E i \in 1..Len(offered[t]) : offered[t][i] = f
        /\ client[t].queue = <<g>>
        /\ n \in reaped

\* C31: while the shutdown signal that stop() set is still set (no later
\* start() has cleared it), no child process is spawned, wherever the
\* supervisor was suspended when stop() was called
C31_NoSpawnAfterStopSignal ==
    [][shutdown_event => alive' \subseteq alive]_vars

\* the bytes the reader has taken from the pipe so far
BytesRead == Len(StreamBytes(wrote)) - Len(pipe)

\* the bytes the reader has moved past: read and no longer in `buffer`
Advanced == BytesRead - Len(vbuf)

\* the child's output is init boxes followed by at most one other box
InitThenOther ==
    \A i \in 1..Len(wrote) : wrote[i].type \notin InitTypes => i = Len(wrote)

RECURSIVE InitLength(_)
\* the length of the leading boxes of init types: the offset of the first
\* box of another type
InitLength(bs) ==
    IF bs = <<>> \/ Head(bs).type \notin InitTypes THEN 0
    ELSE BoxSize(Head(bs)) + InitLength(Tail(bs))

\* C32: on a stream of ftyp/moov/free/skip boxes followed by a box of
\* another type, the reader has moved to exactly the offset of that box
\* once its 8-byte header has been read, and has not moved at all while
\* what it has read ends before that header is complete
C32_BoxWalkFindsBoundary ==
    InitThenOther =>
        IF /\ wrote # <<>>
           /\ wrote[Len(wrote)].type \notin InitTypes
           /\ BytesRead >= InitLength(wrote) + 8
        THEN Advanced = InitLength(wrote)
        ELSE Advanced = 0

\* the command line has been built
Built == ffmpeg_args # <<>>

ArgWords == {ffmpeg_args[i].s : i \in 1..Len(ffmpeg_args)}

\* C33: when VIDEO_QUALITY is set, whatever its value, the explicit
\* resolution is not what the scale filter is built from
C33_QualityWins ==
    (Built /\ video_config.quality # <<>>) => "scale=w:h" \notin ArgWords

\* the source is a remote HTTP or HTTPS one
RemoteHttp ==
    \/ StartsWith(lower(video_config.file_path), <<"h", "t", "t", "p", ":", "/", "/">>)
    \/ StartsWith(lower(video_config.file_path), <<"h", "t", "t", "p", "s", ":", "/", "/">>)

\* C34: the input arguments start with the pacing flag -re for a source of
\* kind FILE and for a remote HTTP(S) source, and do not contain it for an
\* RTSP stream or a capture device
C34_PacingFlag ==
    Built =>
        /\ (source_type(video_config) = "FILE" \/ RemoteHttp)
              => ffmpeg_args[2].s = "-re"
        /\ (StartsWith(lower(video_config.file_path), <<"r", "t", "s", "p", ":", "/", "/">>)
               \/ source_type(video_config) = "DEVICE")
              => "-re" \notin ArgWords

\* C35: a buffer that is registered gets an identifier greater than the
\* identifier of every buffer registered before it (compared here with
\* the earlier buffers that still exist)
C35_IdsIncrease ==
    [][\A t \in Tasks :
         (client[t] = NoClient /\ t \in Registered(CM)')
             => \A u \in Tasks : client[u] # NoClient => t > u]_vars

\* C36: for every client buffer, the chunks counted as sent are the chunks
\* its reader has dequeued, the chunks in its queue and the chunks counted
\* as dropped: none is counted twice, none is lost without being counted
C36_CountersConserved ==
    \A t \in Tasks :
        client[t] # NoClient
            => client[t].frames_sent
                   = Len(got[t]) + Len(client[t].queue)
                         + client[t].frames_dropped

\* one buffer has had a chunk dequeued and holds another, while a second
\* buffer has had a chunk dropped
C36_Witness ==
    \E t \in Tasks, u \in Tasks :
        /\ client[t] # NoClient /\ client[u] # NoClient
        /\ Len(got[t]) >= 1 /\ client[t].queue # <<>>
        /\ client[u].frames_dropped >= 1 /\ client[u].queue # <<>>

\* the stream a reader step broadcasts to: a frame becomes the current frame
BroadcastKind == IF current_frame' # current_frame THEN "video" ELSE "audio"

\* C37: a buffer's queue never holds more chunks than the capacity the
\* buffer was created with, and when a reader broadcasts a chunk every
\* registered open buffer of that stream takes it and stays registered:
\* the enqueue never fails for want of room
C37_QueueWithinCapacity ==
    /\ [](\A t \in Tasks :
            client[t] # NoClient
                => Len(client[t].queue) <= client[t].maxsize)
    /\ [][produced' = produced + 1
            => \A t \in OpenOf(BroadcastKind) :
                   /\ offered'[t] = Append(offered[t], produced')
                   /\ t \in Registered(CM)'
                   /\ client'[t].queue # <<>>]_vars

\* an open registered buffer whose reader is behind has been offered a
\* second chunk while the first was still in its queue, and took it
C37_Witness ==
    \E t \in Registered(CM) :
        /\ client[t].active
        /\ Len(offered[t]) = 2
        /\ got[t] = <<>>
        /\ client[t].queue # <<>>

\* C38: every buffer a Connection Manager operation takes out of the
\* registry is closed once the operation has removed it
C38_RemovedIsClosed ==
    [][\A t \in Tasks :
          (t \in Registered(CM) /\ t \notin Registered(CM)')
              => ~client'[t].active]_vars

\* supervisor task k is inside _run_broadcast_cycle
InCycle(k) == tpc[k] \in {"create_video", "create_audio", "wait", "kill"}

\* the children the cycle of supervisor task k has spawned
CycleChildren(k) == {tlocal[k].cv, tlocal[k].ca} \ {0}

\* C39: when a cycle ends, however it ends, every child it spawned has
\* been killed and its pid is no longer in _ffmpeg_pids
C39_CycleLeavesNoChild ==
    [][\A k \in TaskIds :
          (InCycle(k) /\ ~InCycle(k)')
              => CycleChildren(k) \cap (alive' \cup ffmpeg_pids') = {}]_vars

\* C40: once the lifespan shutdown has stopped a started broadcaster and
\* lifespan.shutdown.complete has been sent, the broadcaster stays STOPPED
\* and no child is spawned, whatever is dispatched afterwards
C40_StoppedAfterShutdown ==
    [][(lifespan = "complete" /\ nStart > 0 /\ state = "STOPPED")
          => (state' = "STOPPED" /\ alive' \subseteq alive)]_vars

========================================================================
